---------------------------- MODULE Spec2Model ----------------------------
(***************************************************************************)
(* Model of the Instagram reel automation (utils.py, content_generator.py, *)
(* reel_generator.py, config.py).  Each component has its own variables    *)
(* and its own specification; the variables of the other components stay   *)
(* unchanged.  Text is modelled as a sequence of one-character strings.    *)
(***************************************************************************)
EXTENDS Integers, Sequences, FiniteSets, TLC

VARIABLES
    retryCall,      \* utils.retry: the last wrapped call (inputs, events, outcome)
    now,            \* the clock, in seconds
    cache,          \* ContentGenerator._cache: key -> (value, timestamp)
    genOp,          \* the last operation of the ContentGenerator and its outcome
    wrapCall,       \* ReelGenerator._wrap_text: the last call and its lines
    fs,             \* the file system: path -> (exists, mtime, size)
    fsNow,          \* the clock of the file system
    fsOp,           \* the last call of a file utility and its result
    _ffmpeg_available,  \* ReelGenerator._ffmpeg_available
    reelOp,         \* the last call of generate_reel and its outcome
    _is_logged_in,  \* InstagramBot._is_logged_in
    session_file,   \* whether the session file of the bot exists
    botOp,          \* the last call of a method of the bot and its outcome
    bot,            \* ReelScheduler.bot: whether it is set
    content_gen,    \* ReelScheduler.content_gen: whether it is set
    reel_gen,       \* ReelScheduler.reel_gen: whether it is set
    schedOp         \* the last run or start-up of the scheduler and its outcome

retryVars == <<retryCall>>
contentVars == <<now, cache, genOp>>
wrapVars == <<wrapCall>>
fileVars == <<fs, fsNow, fsOp>>
reelVars == <<_ffmpeg_available, reelOp>>
botVars == <<_is_logged_in, session_file, botOp>>
schedVars == <<bot, content_gen, reel_gen, schedOp>>
vars == <<retryVars, contentVars, wrapVars, fileVars, reelVars, botVars, schedVars>>

\* what the actions of a component leave unchanged
exceptRetry == <<contentVars, wrapVars, fileVars, reelVars, botVars, schedVars>>
exceptContent == <<retryVars, wrapVars, fileVars, reelVars, botVars, schedVars>>
exceptWrap == <<retryVars, contentVars, fileVars, reelVars, botVars, schedVars>>
exceptFiles == <<retryVars, contentVars, wrapVars, botVars, schedVars>>
exceptBot == <<retryVars, contentVars, wrapVars, fileVars, reelVars, schedVars>>

\* Python's None
None == [isNone |-> TRUE]
NoExc == "none"

(***************************************************************************)
(* Bounds of the model.                                                    *)
(***************************************************************************)
MaxAttempts == 3
MaxTextLen == 4
MaxWidth == 4
MaxMtime == 2
MaxKeep == 2

--------------------------------------------------------------------------
(***************************************************************************)
(* utils.retry (src/utils.py 24-47).                                       *)
(*                                                                         *)
(* The wrapped function is given by the outcomes of its successive         *)
(* invocations: outcomes[i] is what the i-th invocation does.  An outcome  *)
(* is a normal return, an exception derived from Exception, or a           *)
(* BaseException such as KeyboardInterrupt, which `except Exception` does  *)
(* not catch.                                                              *)
(***************************************************************************)
Returns(v) == [kind |-> "return", value |-> v]
Raises(e) == [kind |-> "raise", exc |-> e]
Interrupts == [kind |-> "interrupt", exc |-> "KeyboardInterrupt"]

RetryValues == {[v |-> 1], None}
RetryExceptions == {"E1", "E2"}
RetryOutcomes ==
    {Returns(v) : v \in RetryValues} \cup {Raises(e) : e \in RetryExceptions}
        \cup {Interrupts}

CallEvent(i) == [ev |-> "call", n |-> i]
SleepEvent(d) == [ev |-> "sleep", n |-> d]

\* line 32: while attempt < max_attempts
LoopGuard(attempt, max_attempts) == attempt < max_attempts

\* line 37: if attempt >= max_attempts: raise
ExhaustedOff(attempt, max_attempts) == attempt > max_attempts
Exhausted(attempt, max_attempts) == attempt >= max_attempts

\* line 35: except Exception, whatever the exception is
RetriedUnlessPermanent(exc) == exc \notin {"FileNotFoundError", "ValueError"}
Retried(exc) == TRUE

\* line 43: current_delay *= backoff
NextDelayAdd(current_delay, backoff) == current_delay + backoff
NextDelay(current_delay, backoff) == current_delay * backoff

\* lines 32-45: the loop of wrapper, from the state (attempt, current_delay);
\* events is the sequence of invocations and sleeps so far.
RECURSIVE RetryLoop(_, _, _, _, _, _)
RetryLoop(max_attempts, backoff, outcomes, attempt, current_delay, events) ==
    IF LoopGuard(attempt, max_attempts)
    THEN LET called == Append(events, CallEvent(attempt + 1))
             o == IF attempt + 1 \in DOMAIN outcomes
                  THEN outcomes[attempt + 1] ELSE Returns(None)
         IN  CASE o.kind = "return" ->
                    [kind |-> "return", value |-> o.value, exc |-> NoExc,
                     events |-> called]
               [] o.kind = "interrupt" ->
                    [kind |-> "raise", value |-> None, exc |-> o.exc,
                     events |-> called]
               [] OTHER ->
                    IF Exhausted(attempt + 1, max_attempts) \/ ~Retried(o.exc)
                    THEN [kind |-> "raise", value |-> None, exc |-> o.exc,
                          events |-> called]
                    ELSE RetryLoop(max_attempts, backoff, outcomes, attempt + 1,
                                   NextDelay(current_delay, backoff),
                                   Append(called, SleepEvent(current_delay)))
    ELSE [kind |-> "return", value |-> None, exc |-> NoExc, events |-> events]

\* lines 28-45: wrapper, attempt = 0 and current_delay = delay
retry(max_attempts, delay, backoff, outcomes) ==
    RetryLoop(max_attempts, backoff, outcomes, 0, delay, <<>>)

RetryDelays == {1, 2, 5}
RetryBackoffs == {1, 2, 3}

NoResult == [kind |-> "none", value |-> None, exc |-> NoExc, events |-> <<>>]
NoCall == [max_attempts |-> 0, delay |-> 0, backoff |-> 0, outcomes |-> <<>>,
           result |-> NoResult]

\* One call of a function wrapped by retry(max_attempts, delay, backoff).
RetryCall ==
    /\ retryCall.result.kind = "none"
    /\ \E n \in 0..MaxAttempts, d \in RetryDelays, b \in RetryBackoffs :
      \E outs \in [1..n -> RetryOutcomes] :
        retryCall' = [max_attempts |-> n, delay |-> d, backoff |-> b,
                      outcomes |-> outs, result |-> retry(n, d, b, outs)]
    /\ UNCHANGED exceptRetry

\* The caller has taken the outcome; the wrapper keeps no state between calls.
RetryReturn ==
    /\ retryCall.result.kind # "none"
    /\ retryCall' = NoCall
    /\ UNCHANGED exceptRetry

InitRetry == retryCall = NoCall

--------------------------------------------------------------------------
\* src/config.py 29-33
BASE_HASHTAGS ==
    <<<<"#", "s", "p", "a", "c", "e">>,
      <<"#", "a", "s", "t", "r", "o", "n", "o", "m", "y">>,
      <<"#", "n", "a", "s", "a">>,
      <<"#", "s", "p", "a", "c", "e", "x">>,
      <<"#", "u", "n", "i", "v", "e", "r", "s", "e">>,
      <<"#", "c", "o", "s", "m", "o", "s">>,
      <<"#", "a", "s", "t", "r", "o", "p", "h", "y", "s", "i", "c", "s">>,
      <<"#", "s", "p", "a", "c", "e", "e", "x", "p", "l", "o", "r", "a", "t", "i", "o", "n">>,
      <<"#", "v", "e", "n", "t", "u", "r", "e", "u", "n", "i", "v", "e", "r", "s", "e">>,
      <<"#", "s", "p", "a", "c", "e", "n", "e", "w", "s">>,
      <<"#", "s", "c", "i", "e", "n", "c", "e">>,
      <<"#", "g", "a", "l", "a", "x", "y">>,
      <<"#", "s", "t", "a", "r", "s">>,
      <<"#", "s", "p", "a", "c", "e", "f", "a", "c", "t", "s">>>>

\* String literals of src/content_generator.py
Str_NebulaX ==
    <<"N", "e", "b", "u", "l", "a", " ", "X">>
Str_PWow ==
    <<"<", "p", ">", "W", "o", "w", "<", "/", "p", ">">>
Str_SpaceDiscovery ==
    <<"S", "p", "a", "c", "e", " ", "D", "i", "s", "c", "o", "v", "e",
      "r", "y">>
Str_SpaceNews ==
    <<"S", "p", "a", "c", "e", " ", "N", "e", "w", "s">>
Str_SpaceUpdate ==
    <<"S", "p", "a", "c", "e", " ", "U", "p", "d", "a", "t", "e">>
Str_AmazingSpaceDiscovery ==
    <<"A", "m", "a", "z", "i", "n", "g", " ", "S", "p", "a", "c", "e",
      " ", "D", "i", "s", "c", "o", "v", "e", "r", "y">>
Str_FallbackExplanation ==
    <<"T", "h", "e", " ", "u", "n", "i", "v", "e", "r", "s", "e", " ",
      "i", "s", " ", "f", "u", "l", "l", " ", "o", "f", " ", "w", "o",
      "n", "d", "e", "r", "s", " ", "w", "a", "i", "t", "i", "n", "g",
      " ", "t", "o", " ", "b", "e", " ", "d", "i", "s", "c", "o", "v",
      "e", "r", "e", "d", "!", " ", "U+1F30C", "U+2728">>
Str_FollowLine ==
    <<"F", "o", "l", "l", "o", "w", " ", "@", "v", "e", "n", "t", "u",
      "r", "e", "u", "n", "i", "v", "e", "r", "s", "e", " ", "f", "o",
      "r", " ", "d", "a", "i", "l", "y", " ", "s", "p", "a", "c", "e",
      " ", "u", "p", "d", "a", "t", "e", "s", "!", " ", "U+1F30C",
      "U+2728">>
Str_ExploringTheUniverse ==
    <<"E", "x", "p", "l", "o", "r", "i", "n", "g", " ", "t", "h", "e",
      " ", "U", "n", "i", "v", "e", "r", "s", "e">>
Str_TheCosmosAwaits ==
    <<"T", "h", "e", " ", "c", "o", "s", "m", "o", "s", " ", "a", "w",
      "a", "i", "t", "s", "!">>
Str_Rocket ==
    <<"U+1F680", " ">>
Str_Ellipsis ==
    <<".", ".", ".">>

--------------------------------------------------------------------------
(***************************************************************************)
(* content_generator.ContentGenerator (src/content_generator.py).          *)
(*                                                                         *)
(* A text is a sequence of one-character strings.  A Python dict is a      *)
(* record; None is the record None.  The clock `now` is in seconds; the    *)
(* date of strftime('%Y-%m-%d') is the number of the day.                  *)
(***************************************************************************)
SecondsPerDay == 86400
cache_ttl == 3600
max_caption_length == 2000
DescriptionLimit == 150
HashtagLimit == 10

Min(a, b) == IF a < b THEN a ELSE b
Max(a, b) == IF a < b THEN b ELSE a

\* dict.get(k, default)
DictGet(d, k, default) == IF k \in DOMAIN d THEN d[k] ELSE default

\* Python truth value of an Optional[dict] whose dicts are never empty
Truthy(v) == v # None

\* s[:n]
Prefix(s, n) == SubSeq(s, 1, Min(n, Len(s)))

\* c in s
Contains(s, c) == \E i \in 1..Len(s) : s[i] = c

\* s.rfind(' ') + 1: the index of the last space of s, or 0
LastSpace(s) ==
    IF Contains(s, " ")
    THEN CHOOSE i \in 1..Len(s) : s[i] = " " /\ \A j \in (i + 1)..Len(s) : s[j] # " "
    ELSE 0

\* s.rsplit(' ', 1)[0]: the text before the last space, or all of s
RSplitHead(s) == IF LastSpace(s) # 0 THEN SubSeq(s, 1, LastSpace(s) - 1) ELSE s

\* sep.join(parts)
RECURSIVE Join(_, _)
Join(parts, sep) ==
    IF Len(parts) = 0 THEN <<>>
    ELSE IF Len(parts) = 1 THEN parts[1]
    ELSE parts[1] \o sep \o Join(Tail(parts), sep)

\* The match of the regular expression <[^<]+?> that starts at s[i] = "<":
\* the index of its closing ">", or 0 when there is no match at i.  The
\* match is "<", one or more characters other than "<" (as few as
\* possible), then ">".
TagEnd(s, i) ==
    LET ends == {j \in (i + 2)..Len(s) :
                    /\ s[j] = ">"
                    /\ \A k \in (i + 1)..(j - 1) : s[k] # "<"}
    IN  IF ends = {} THEN 0 ELSE CHOOSE j \in ends : \A k \in ends : j <= k

\* re.sub('<[^<]+?>', '', s), from position i
RECURSIVE StripFrom(_, _)
StripFrom(s, i) ==
    IF i > Len(s) THEN <<>>
    ELSE IF s[i] = "<" /\ TagEnd(s, i) # 0
         THEN StripFrom(s, TagEnd(s, i) + 1)
         ELSE <<s[i]>> \o StripFrom(s, i + 1)

\* lines 144-146: clean HTML tags if present
StripTagsIdentity(explanation) == explanation
StripTags(explanation) ==
    IF Contains(explanation, "<") THEN StripFrom(explanation, 1) ELSE explanation

\* lines 149-151: truncate to max_caption_length at the last space
Truncate(explanation) ==
    IF Len(explanation) > max_caption_length
    THEN RSplitHead(Prefix(explanation, max_caption_length)) \o Str_Ellipsis
    ELSE explanation

\* line 45 and 67: datetime.now().strftime('%Y-%m-%d')
DateStr(t) == ToString(t \div SecondsPerDay)

\* line 45: the cache key of the daily picture; line 85: of the news
ApodKey(t) == "nasa_apod_" \o DateStr(t)
NewsKey == "space_news"

\* lines 28-36
_get_cachedAtTtl(c, key, t) ==
    IF key \in DOMAIN c
    THEN IF t - c[key].timestamp <= cache_ttl
         THEN [value |-> c[key].value, cache |-> c]
         ELSE [value |-> None, cache |-> [k \in DOMAIN c \ {key} |-> c[k]]]
    ELSE [value |-> None, cache |-> c]
_get_cached(c, key, t) ==
    IF key \in DOMAIN c
    THEN IF t - c[key].timestamp < cache_ttl
         THEN [value |-> c[key].value, cache |-> c]
         ELSE [value |-> None, cache |-> [k \in DOMAIN c \ {key} |-> c[k]]]
    ELSE [value |-> None, cache |-> c]

\* lines 38-40
_set_cache(c, key, value, t) ==
    [k \in DOMAIN c \cup {key} |->
        IF k = key THEN [value |-> value, timestamp |-> t] ELSE c[k]]

\* lines 63-68: the record built from the endpoint's JSON
ApodResult(data, t) ==
    [title |-> DictGet(data, "title", Str_SpaceDiscovery),
     explanation |-> DictGet(data, "explanation", <<>>),
     image_url |-> DictGet(data, "url", ""),
     date |-> DictGet(data, "date", DateStr(t))]

\* lines 98-102: the record built from the first feed entry
NewsResult(article) ==
    [title |-> DictGet(article, "title", Str_SpaceNews),
     summary |-> DictGet(article, "summary", <<>>),
     link |-> DictGet(article, "link", "")]

\* lines 75-80 and 112-114: every failure of a fetch is caught and the body
\* returns None
FetchFailureRaises(net) == Raises(net.kind)
FetchFailure(net) == Returns(None)

\* lines 75-80, 104 and 112-114: a body that returns None has not called
\* _set_cache
CacheAfterFailureStored(c, key, t) == _set_cache(c, key, None, t)
CacheAfterFailure(c, key, t) == c

\* lines 45-80: one invocation of the body of get_nasa_apod; net is what the
\* endpoint does if it is contacted
get_nasa_apod_body(c, t, net) ==
    LET cached == _get_cached(c, ApodKey(t), t)
    IN  IF Truthy(cached.value)
        THEN [outcome |-> Returns(cached.value), cache |-> cached.cache,
              contacted |-> FALSE]
        ELSE IF net.kind = "ok"
        THEN LET result == ApodResult(net.data, t)
             IN  [outcome |-> Returns(result),
                  cache |-> _set_cache(cached.cache, ApodKey(t), result, t),
                  contacted |-> TRUE]
        ELSE [outcome |-> FetchFailure(net),
              cache |-> CacheAfterFailure(cached.cache, ApodKey(t), t),
              contacted |-> TRUE]

\* lines 85-114: one invocation of the body of get_trending_space_news; net
\* is what feedparser.parse does if it is called
get_trending_space_news_body(c, t, net) ==
    LET cached == _get_cached(c, NewsKey, t)
    IN  IF Truthy(cached.value)
        THEN [outcome |-> Returns(cached.value), cache |-> cached.cache,
              contacted |-> FALSE]
        ELSE IF net.kind = "ok" /\ Len(net.entries) > 0
        THEN LET result == NewsResult(net.entries[1])
             IN  [outcome |-> Returns(result),
                  cache |-> _set_cache(cached.cache, NewsKey, result, t),
                  contacted |-> TRUE]
        ELSE IF net.kind = "ok"
        THEN [outcome |-> Returns(None),
              cache |-> CacheAfterFailure(cached.cache, NewsKey, t),
              contacted |-> TRUE]
        ELSE [outcome |-> FetchFailure(net),
              cache |-> CacheAfterFailure(cached.cache, NewsKey, t),
              contacted |-> TRUE]

\* The successive invocations i, i+1, ... of a body by the retry wrapper:
\* each starts from the cache the previous one left.
RECURSIVE ApodRuns(_, _, _, _)
ApodRuns(c, t, nets, i) ==
    IF i > Len(nets) THEN <<>>
    ELSE LET r == get_nasa_apod_body(c, t, nets[i])
         IN  <<r>> \o ApodRuns(r.cache, t, nets, i + 1)

RECURSIVE NewsRuns(_, _, _, _)
NewsRuns(c, t, nets, i) ==
    IF i > Len(nets) THEN <<>>
    ELSE LET r == get_trending_space_news_body(c, t, nets[i])
         IN  <<r>> \o NewsRuns(r.cache, t, nets, i + 1)

\* A body under @retry(max_attempts, delay): the wrapper's outcome, the
\* cache after the last invocation made, the number of invocations and the
\* number of them that contacted the network.
Wrapped(max_attempts, delay, runs, c) ==
    LET r == retry(max_attempts, delay, 2, [i \in 1..Len(runs) |-> runs[i].outcome])
        n == Cardinality({i \in 1..Len(r.events) : r.events[i].ev = "call"})
    IN  [result |-> r,
         cache |-> IF n = 0 THEN c ELSE runs[n].cache,
         calls |-> n,
         contacts |-> Cardinality({i \in 1..n : runs[i].contacted})]

\* line 42: @retry(max_attempts=3, delay=2.0)
get_nasa_apod(c, t, nets) == Wrapped(3, 2, ApodRuns(c, t, nets, 1), c)

\* line 82: @retry(max_attempts=2, delay=2.0)
get_trending_space_news(c, t, nets) == Wrapped(2, 2, NewsRuns(c, t, nets, 1), c)

\* lines 133-139: fallback content if all sources fail
NoFallback(content, t) == content
ContentOrFallback(content, t) ==
    IF ~Truthy(content)
    THEN [title |-> Str_AmazingSpaceDiscovery,
          explanation |-> Str_FallbackExplanation,
          date |-> DateStr(t)]
    ELSE content

\* line 142: content.get('explanation', content.get('summary', ''))
Explanation(content) ==
    DictGet(content, "explanation", DictGet(content, "summary", <<>>))

\* line 160: " ".join(Config.BASE_HASHTAGS[:10])
HashtagBlock == Join(Prefix(BASE_HASHTAGS, HashtagLimit), <<" ">>)

\* lines 153-163: the caption, its parts joined by newlines
Caption(title, explanation) ==
    Join(<<Str_Rocket \o title, <<>>, explanation, <<>>, Str_FollowLine, <<>>,
           HashtagBlock>>, <<"\n">>)

\* lines 141-169: the result built from the content; content.get on None
\* raises AttributeError
BuildCaption(content, content_type) ==
    IF content = None
    THEN Raises("AttributeError")
    ELSE Returns([caption |-> Caption(DictGet(content, "title", Str_SpaceUpdate),
                                      Truncate(StripTags(Explanation(content)))),
                  content |-> content,
                  content_type |-> content_type])

\* The outcome of an operation of the generator: what the caller gets, the
\* cache afterwards, the sources consulted in order, those whose
\* consultation contacted the network and those that returned nothing.
GenOutcome(o, c, consulted, contacted, empty) ==
    [outcome |-> o, cache |-> c, consulted |-> consulted, contacted |-> contacted,
     empty |-> empty]

Contacted(src, f) == IF f.contacts > 0 THEN <<src>> ELSE <<>>
Empty(src, f) ==
    IF f.result.kind = "return" /\ ~Truthy(f.result.value) THEN <<src>> ELSE <<>>

\* lines 116-169
generate_caption(content_type, c, t, apodNets, newsNets) ==
    LET apodFirst == content_type = "apod"
        src1 == IF apodFirst THEN "apod" ELSE "news"
        src2 == IF apodFirst THEN "news" ELSE "apod"
        f1 == IF apodFirst THEN get_nasa_apod(c, t, apodNets)
              ELSE get_trending_space_news(c, t, newsNets)
        f2 == IF apodFirst THEN get_trending_space_news(f1.cache, t, newsNets)
              ELSE get_nasa_apod(f1.cache, t, apodNets)
    IN  IF f1.result.kind = "raise"
        THEN GenOutcome(Raises(f1.result.exc), f1.cache, <<src1>>, Contacted(src1, f1),
                        <<>>)
        ELSE IF Truthy(f1.result.value)
        THEN GenOutcome(BuildCaption(ContentOrFallback(f1.result.value, t), content_type),
                        f1.cache, <<src1>>, Contacted(src1, f1), <<>>)
        ELSE IF f2.result.kind = "raise"
        THEN GenOutcome(Raises(f2.result.exc), f2.cache, <<src1, src2>>,
                        Contacted(src1, f1) \o Contacted(src2, f2), <<src1>>)
        ELSE GenOutcome(BuildCaption(ContentOrFallback(f2.result.value, t), src2),
                        f2.cache, <<src1, src2>>,
                        Contacted(src1, f1) \o Contacted(src2, f2),
                        <<src1>> \o Empty(src2, f2))

\* lines 181 and 192: text[:150] + "..." if len(text) > 150 else text
Description(text) ==
    IF Len(text) > DescriptionLimit
    THEN Prefix(text, DescriptionLimit) \o Str_Ellipsis
    ELSE text

\* lines 196-203: the ultimate fallback
DefaultContentAsNews ==
    [type |-> "news", title |-> Str_SpaceDiscovery, text |-> Str_ExploringTheUniverse,
     image_url |-> "", description |-> Str_TheCosmosAwaits]
DefaultContent ==
    [type |-> "default", title |-> Str_SpaceDiscovery, text |-> Str_ExploringTheUniverse,
     image_url |-> "", description |-> Str_TheCosmosAwaits]

\* lines 171-203; an image_url of None is the empty string here
get_content_for_reel(c, t, apodNets, newsNets) ==
    LET fa == get_nasa_apod(c, t, apodNets)
        apod == fa.result.value
        fn == get_trending_space_news(fa.cache, t, newsNets)
        news == fn.result.value
    IN  IF fa.result.kind = "raise"
        THEN GenOutcome(Raises(fa.result.exc), fa.cache, <<"apod">>, Contacted("apod", fa),
                        <<>>)
        ELSE IF Truthy(apod) /\ apod.image_url # ""
        THEN GenOutcome(Returns([type |-> "apod", title |-> apod.title,
                                 text |-> apod.title, image_url |-> apod.image_url,
                                 description |-> Description(apod.explanation)]),
                        fa.cache, <<"apod">>, Contacted("apod", fa), <<>>)
        ELSE IF fn.result.kind = "raise"
        THEN GenOutcome(Raises(fn.result.exc), fn.cache, <<"apod", "news">>,
                        Contacted("apod", fa) \o Contacted("news", fn), Empty("apod", fa))
        ELSE IF Truthy(news)
        THEN GenOutcome(Returns([type |-> "news", title |-> news.title,
                                 text |-> news.title, image_url |-> "",
                                 description |-> Description(news.summary)]),
                        fn.cache, <<"apod", "news">>,
                        Contacted("apod", fa) \o Contacted("news", fn), Empty("apod", fa))
        ELSE GenOutcome(Returns(DefaultContent), fn.cache, <<"apod", "news">>,
                        Contacted("apod", fa) \o Contacted("news", fn),
                        Empty("apod", fa) \o Empty("news", fn))

(***************************************************************************)
(* What the network can answer.                                            *)
(***************************************************************************)
\* a text of n characters "a" with a space at every multiple of period
LongText(n, period) ==
    [i \in 1..n |-> IF period > 0 /\ i % period = 0 THEN " " ELSE "a"]
Text_LongNoSpace == LongText(max_caption_length + 1, 0)
Text_LongWords == LongText(max_caption_length + 100, 7)

ScenarioData ==
    [title |-> Str_NebulaX, explanation |-> Str_PWow, url |-> "http://img",
     date |-> "2024-01-01"]

ApodData ==
    {ScenarioData,
     [url |-> ""],
     [title |-> <<"T", "1">>, explanation |-> Text_LongNoSpace, url |-> "http://img1"],
     [title |-> <<"a", "<", "b">>,
      explanation |-> <<"x", " ", "<", " ", "y", ">", "<", ">", "z">>, url |-> ""]}

NewsEntries ==
    {[title |-> <<"N", "1">>,
      summary |-> <<"<", "b", ">", "h", "i", "<", "/", "b", ">">>, link |-> "http://n1"],
     [title |-> <<"N", "2">>, summary |-> Text_LongWords],
     [link |-> ""]}

RequestError == [kind |-> "request_error"]
OtherError == [kind |-> "error"]
ApodOk(d) == [kind |-> "ok", data |-> d]
FeedOk(es) == [kind |-> "ok", entries |-> es]

ApodNet == {ApodOk(d) : d \in ApodData} \cup {RequestError, OtherError}
NewsNet == {FeedOk(<<e>>) : e \in NewsEntries} \cup {FeedOk(<<>>), OtherError}

\* What the network answers to the successive invocations of one wrapped
\* call: any answer followed by failures, or a failure followed by answers.
NetSeq(first, later, n) == [i \in 1..n |-> IF i = 1 THEN first ELSE later]
ApodNetSeqs ==
    {NetSeq(a, RequestError, 3) : a \in ApodNet}
        \cup {NetSeq(RequestError, ApodOk(ScenarioData), 3)}
NewsNetSeqs ==
    {NetSeq(n, OtherError, 2) : n \in NewsNet}
        \cup {NetSeq(OtherError, FeedOk(<<CHOOSE e \in NewsEntries : "link" \notin DOMAIN e>>), 2)}

ContentTypes == {"apod", "news"}

\* the instants at which the model looks at the clock
Times == {0, cache_ttl - 1, cache_ttl, SecondsPerDay, SecondsPerDay + cache_ttl}
CaptionTimes == {0, cache_ttl}

NoGenOp ==
    [op |-> "none", arg |-> "", at |-> 0, outcome |-> Returns(None),
     consulted |-> <<>>, contacted |-> <<>>, empty |-> <<>>]

GenOp(op, arg, r) ==
    [op |-> op, arg |-> arg, at |-> now, outcome |-> r.outcome,
     consulted |-> r.consulted, contacted |-> r.contacted, empty |-> r.empty]

InitContent ==
    /\ now = 0
    /\ cache = [k \in {} |-> None]
    /\ genOp = NoGenOp

\* time passes, to one of the instants T
TickTo(T) ==
    /\ \E t \in T : t > now /\ now' = t
    /\ UNCHANGED <<cache, genOp, exceptContent>>
Tick == TickTo(Times)
CaptionTick == TickTo(CaptionTimes)

GenerateCaption ==
    \E ct \in ContentTypes, an \in ApodNetSeqs, nn \in NewsNetSeqs :
        LET r == generate_caption(ct, cache, now, an, nn)
        IN  /\ cache' = r.cache
            /\ genOp' = GenOp("generate_caption", ct, r)
            /\ UNCHANGED <<now, exceptContent>>

GetContentForReel ==
    \E an \in ApodNetSeqs, nn \in NewsNetSeqs :
        LET r == get_content_for_reel(cache, now, an, nn)
        IN  /\ cache' = r.cache
            /\ genOp' = GenOp("get_content_for_reel", "", r)
            /\ UNCHANGED <<now, exceptContent>>

\* What a single wrapped fetch adds to the record of the operation: the
\* cache before it, what the network answers, the attempt limit of its
\* decorator, the invocations of the body, the requests made and the sleeps.
FetchOp(f, nets, max_attempts) ==
    [before |-> cache, nets |-> nets, max_attempts |-> max_attempts,
     calls |-> f.calls, contacts |-> f.contacts,
     sleeps |-> SelectSeq(f.result.events, LAMBDA e : e.ev = "sleep")]

GetNasaApod ==
    /\ genOp.op = "none"
    /\ \E an \in ApodNetSeqs :
        LET f == get_nasa_apod(cache, now, an)
            o == IF f.result.kind = "raise" THEN Raises(f.result.exc)
                 ELSE Returns(f.result.value)
        IN  /\ cache' = f.cache
            /\ genOp' = FetchOp(f, an, 3) @@
                         GenOp("get_nasa_apod", "",
                              GenOutcome(o, f.cache, <<"apod">>, Contacted("apod", f),
                                         Empty("apod", f)))
            /\ UNCHANGED <<now, exceptContent>>

GetTrendingSpaceNews ==
    /\ genOp.op = "none"
    /\ \E nn \in NewsNetSeqs :
        LET f == get_trending_space_news(cache, now, nn)
            o == IF f.result.kind = "raise" THEN Raises(f.result.exc)
                 ELSE Returns(f.result.value)
        IN  /\ cache' = f.cache
            /\ genOp' = FetchOp(f, nn, 2) @@
                         GenOp("get_trending_space_news", "",
                              GenOutcome(o, f.cache, <<"news">>, Contacted("news", f),
                                         Empty("news", f)))
            /\ UNCHANGED <<now, exceptContent>>

\* time passes between two fetches
FetchTick == genOp.op = "none" /\ Tick

\* the caller has taken the result of the fetch
FetchReturn ==
    /\ genOp.op \in {"get_nasa_apod", "get_trending_space_news"}
    /\ genOp' = NoGenOp
    /\ UNCHANGED <<now, cache, exceptContent>>

--------------------------------------------------------------------------
(***************************************************************************)
(* reel_generator.ReelGenerator._wrap_text (src/reel_generator.py 107-135).*)
(*                                                                         *)
(* The font is given by the width of each character; the measured width of *)
(* a line (textbbox) is the sum of the widths of its characters, so it     *)
(* grows with every word appended.                                         *)
(***************************************************************************)
WrapAlphabet == {"a", "W", " ", "\n"}

\* the advance of a character in the font
CharWidth(c) == IF c = "W" THEN 2 ELSE 1

\* lines 122-123: bbox = textbbox((0, 0), line); bbox[2] - bbox[0]
RECURSIVE TextWidth(_)
TextWidth(line) ==
    IF Len(line) = 0 THEN 0 ELSE CharWidth(Head(line)) + TextWidth(Tail(line))

\* line 109: the whitespace of str.split() that the texts contain
IsSpace(c) == c \in {" ", "\n"}

\* line 109: text.split(), from position i, word being the word read so far
RECURSIVE SplitFrom(_, _, _)
SplitFrom(text, i, word) ==
    IF i > Len(text)
    THEN IF Len(word) > 0 THEN <<word>> ELSE <<>>
    ELSE IF IsSpace(text[i])
         THEN (IF Len(word) > 0 THEN <<word>> ELSE <<>>) \o SplitFrom(text, i + 1, <<>>)
         ELSE SplitFrom(text, i + 1, Append(word, text[i]))

Split(text) == SplitFrom(text, 1, <<>>)

\* line 125: if test_width <= max_width
Fits(test_width, max_width) == test_width <= max_width

\* lines 127 and 132: if current_line
HasWordsAlways(current_line) == TRUE
HasWords(current_line) == Len(current_line) > 0

\* lines 120-133: the loop over words[i..], then the last line
RECURSIVE WrapLoop(_, _, _, _, _)
WrapLoop(words, i, current_line, lines, max_width) ==
    IF i > Len(words)
    THEN IF HasWords(current_line)
         THEN Append(lines, Join(current_line, <<" ">>))
         ELSE lines
    ELSE LET word == words[i]
             test_line == Join(Append(current_line, word), <<" ">>)
         IN  IF Fits(TextWidth(test_line), max_width)
             THEN WrapLoop(words, i + 1, Append(current_line, word), lines, max_width)
             ELSE WrapLoop(words, i + 1, <<word>>,
                           IF HasWords(current_line)
                           THEN Append(lines, Join(current_line, <<" ">>))
                           ELSE lines,
                           max_width)

\* lines 107-135
_wrap_text(text, max_width) ==
    IF Len(Split(text)) = 0 THEN <<>>
    ELSE WrapLoop(Split(text), 1, <<>>, <<>>, max_width)

\* the texts of at most MaxTextLen characters
RECURSIVE TextsOfLen(_)
TextsOfLen(n) ==
    IF n = 0 THEN {<<>>}
    ELSE {Append(t, c) : t \in TextsOfLen(n - 1), c \in WrapAlphabet}
WrapTexts == UNION {TextsOfLen(n) : n \in 0..MaxTextLen}

NoWrap == [called |-> FALSE, text |-> <<>>, max_width |-> 0, lines |-> <<>>]

InitWrap == wrapCall = NoWrap

\* one call of _wrap_text
WrapText ==
    /\ ~wrapCall.called
    /\ \E text \in WrapTexts, max_width \in 0..MaxWidth :
         wrapCall' = [called |-> TRUE, text |-> text, max_width |-> max_width,
                      lines |-> _wrap_text(text, max_width)]
    /\ UNCHANGED exceptWrap

\* the caller has taken the lines
WrapReturn ==
    /\ wrapCall.called
    /\ wrapCall' = NoWrap
    /\ UNCHANGED exceptWrap

--------------------------------------------------------------------------
(***************************************************************************)
(* The file system seen by utils.cleanup_temp_files, get_file_size_mb and  *)
(* validate_video_file (src/utils.py 50-96).                               *)
(*                                                                         *)
(* A path is a directory, a stem and an extension; a glob pattern is a     *)
(* stem and an extension of which either may be "*", after an optional     *)
(* leading segment "..", which Path.glob follows to the parent directory.  *)
(* The directories are subdirectories of the working directory ".".  The   *)
(* files are                                                               *)
(* regular files of readable directories, so listing a directory and       *)
(* reading the modification time or the size of a listed file succeed;     *)
(* the deletion of a file can fail (lines 61-65).                          *)
(***************************************************************************)
Path(dir, stem, ext) == [dir |-> dir, stem |-> stem, ext |-> ext]

output_dir == "output"
content_image_path == Path(output_dir, "content_image", "jpg")
frame_path == Path(output_dir, "reel_frame", "jpg")
output_path == Path(output_dir, "reel", "mp4")
old_frame_path == Path(output_dir, "old", "jpg")
other_path == Path("other", "x", "jpg")

Paths ==
    {content_image_path, frame_path, output_path, old_frame_path, other_path,
     Path(".", "profile_pic", "jpg")}

ExistingDirs == {output_dir, "other"}
Directories == ExistingDirs \cup {"missing"}

Pattern(stem, ext) == [up |-> FALSE, stem |-> stem, ext |-> ext]
\* the pattern ../stem.ext
ParentPattern(stem, ext) == [up |-> TRUE, stem |-> stem, ext |-> ext]
Patterns ==
    {Pattern("*", "jpg"), Pattern("*", "mp4"), Pattern("*", "*"),
     ParentPattern("*", "jpg")}

\* the directory that holds the files a pattern selects
Parent(directory) == "."
GlobDir(directory, pattern) == IF pattern.up THEN Parent(directory) ELSE directory

\* line 81: 1024 * 1024
MiB == 1048576

Absent == [exists |-> FALSE, mtime |-> 0, size |-> 0]

\* the file p is written at time mtime with size bytes
WriteTo(f, p, mtime, size) ==
    [f EXCEPT ![p] = [exists |-> TRUE, mtime |-> mtime, size |-> size]]

\* fnmatch of the name of p against the pattern
Matches(p, pattern) ==
    /\ pattern.stem = "*" \/ pattern.stem = p.stem
    /\ pattern.ext = "*" \/ pattern.ext = p.ext

\* line 57: dir_path.glob(pattern)
GlobEverywhere(f, directory, pattern) ==
    {p \in Paths : f[p].exists /\ Matches(p, pattern)}
Glob(f, directory, pattern) ==
    {p \in Paths : /\ f[p].exists
                   /\ p.dir = GlobDir(directory, pattern)
                   /\ Matches(p, pattern)}

\* line 57: key = st_mtime, reverse = True
InOrderAscending(f, first, second) == f[first].mtime <= f[second].mtime
InOrder(f, first, second) == f[first].mtime >= f[second].mtime

\* line 57: sorted(...): the listings of the files in an order the sort can
\* return.  The directory is listed in no particular order, so files with
\* equal modification times come out in any order.
Sorted(f, files) ==
    LET n == Cardinality(files)
    IN  {order \in [1..n -> files] :
            /\ \A i, j \in 1..n : i # j => order[i] # order[j]
            /\ \A i, j \in 1..n : i < j => InOrder(f, order[i], order[j])}

\* line 60: files[k:], with Python's meaning of a negative k
SliceFrom(files, k) ==
    LET n == Len(files)
        start == IF k >= 0 THEN Min(k, n) ELSE Max(n + k, 0)
    IN  SubSeq(files, start + 1, n)

Elements(s) == {s[i] : i \in 1..Len(s)}

\* line 62: file.unlink() for the files of removed
Unlink(f, removed) == [p \in Paths |-> IF p \in removed THEN Absent ELSE f[p]]

\* lines 50-67: files is the sorted listing, failed the files whose deletion
\* raises
cleanup_temp_files(f, directory, pattern, keep_recent, files, failed) ==
    IF directory \notin ExistingDirs THEN f
    ELSE Unlink(f, Elements(SliceFrom(files, keep_recent)) \ failed)

\* lines 77-83: the size in bytes (the caller compares it in MB); 0 when the
\* size cannot be read
get_file_size_mb(f, p) == IF f[p].exists THEN f[p].size ELSE 0

\* line 92: size_mb < min_size_mb, with min_size_mb the fraction num/den of a
\* MB and the size in bytes
BelowOrAt(size_bytes, min_size_mb) ==
    size_bytes * min_size_mb.den <= min_size_mb.num * MiB
Below(size_bytes, min_size_mb) ==
    size_bytes * min_size_mb.den < min_size_mb.num * MiB

\* lines 86-96
validate_video_file(f, p, min_size_mb) ==
    IF ~f[p].exists THEN FALSE
    ELSE IF Below(get_file_size_mb(f, p), min_size_mb) THEN FALSE
    ELSE TRUE

\* line 86: the default min_size_mb = 0.1
DefaultMinSize == [num |-> 1, den |-> 10]
MinSizes == {DefaultMinSize, [num |-> 0, den |-> 1], [num |-> 1, den |-> 1]}

\* sizes in bytes around the thresholds
Sizes == {0, 104857, 104858, MiB - 1, MiB}

KeepRecents == (0 - 1)..MaxKeep

NoFsOp == [op |-> "none"]

InitFiles ==
    /\ fs = [p \in Paths |-> Absent]
    /\ fsNow = 1
    /\ fsOp = NoFsOp

\* a file of P is written or touched, with a time of M and a size of S
WriteFile(P, M, S) ==
    /\ fsOp.op = "none"
    /\ \E p \in P, m \in M, s \in S : fs' = WriteTo(fs, p, m, s)
    /\ UNCHANGED <<fsNow, fsOp, exceptFiles, reelVars>>

\* a file is created or touched out of band
TouchFile == WriteFile(Paths, 1..MaxMtime, {MiB})

\* a video or another file is stored, of any size
StoreFile == WriteFile({output_path, other_path}, {1}, Sizes)

\* one call of cleanup_temp_files
CleanupTempFiles ==
    /\ fsOp.op = "none"
    /\ \E directory \in Directories, pattern \in Patterns, keep_recent \in KeepRecents :
         \E files \in Sorted(fs, Glob(fs, directory, pattern)) :
           \E failed \in SUBSET Elements(SliceFrom(files, keep_recent)) :
             /\ fs' = cleanup_temp_files(fs, directory, pattern, keep_recent, files, failed)
             /\ fsOp' = [op |-> "cleanup", directory |-> directory, pattern |-> pattern,
                         keep_recent |-> keep_recent, before |-> fs,
                         failed |-> IF directory \in ExistingDirs THEN failed ELSE {}]
    /\ UNCHANGED <<fsNow, exceptFiles, reelVars>>

\* one call of validate_video_file
ValidateVideoFile ==
    /\ fsOp.op = "none"
    /\ \E p \in Paths, min_size_mb \in MinSizes :
         fsOp' = [op |-> "validate", path |-> p, min_size_mb |-> min_size_mb,
                  result |-> validate_video_file(fs, p, min_size_mb)]
    /\ UNCHANGED <<fs, fsNow, exceptFiles, reelVars>>

\* the caller has taken the result
FsReturn ==
    /\ fsOp.op # "none"
    /\ fsOp' = NoFsOp
    /\ UNCHANGED <<fs, fsNow, exceptFiles, reelVars>>

\* the clock of the file system advances
FsTick ==
    /\ fsOp.op = "none"
    /\ fsNow < MaxMtime
    /\ fsNow' = fsNow + 1
    /\ UNCHANGED <<fs, fsOp, exceptFiles, reelVars>>

--------------------------------------------------------------------------
(***************************************************************************)
(* reel_generator.ReelGenerator.generate_reel                              *)
(* (src/reel_generator.py 310-352).                                        *)
(*                                                                         *)
(* The environment of a call is what each external step does when it is    *)
(* run: whether the download succeeds, whether the frame can be saved,     *)
(* what each encoder reports, and the size of the video an encoder writes. *)
(***************************************************************************)
\* line 314: the truth value of content_data.get('image_url')
HasImage(content_data) == DictGet(content_data, "image_url", "") # ""

\* lines 80-98: a failed download is caught and reported by False
download_image(f, t, ok) ==
    [ok |-> ok, fs |-> IF ok THEN WriteTo(f, content_image_path, t, MiB) ELSE f]

\* lines 272-308: False when ffmpeg is unavailable, fails or times out
_generate_video_ffmpeg(f, t, available, ok, size) ==
    IF ~available THEN [ok |-> FALSE, fs |-> f]
    ELSE IF ok THEN [ok |-> TRUE, fs |-> WriteTo(f, output_path, t, size)]
    ELSE [ok |-> FALSE, fs |-> f]

\* lines 253-270: every exception of moviepy is caught and reported by False
_generate_video_moviepy(f, t, ok, size) ==
    IF ok THEN [ok |-> TRUE, fs |-> WriteTo(f, output_path, t, size)]
    ELSE [ok |-> FALSE, fs |-> f]

\* line 352: both encoders failed
EncodersFailedReturnsPath(path) == Returns(path)
EncodersFailed(path) == Raises("Exception")

ReelResult(outcome, f, ffmpegTried, ffmpegOk, moviepyTried, moviepyOk) ==
    [outcome |-> outcome, fs |-> f,
     ffmpegTried |-> ffmpegTried, ffmpegOk |-> ffmpegOk,
     moviepyTried |-> moviepyTried, moviepyOk |-> moviepyOk]

\* line 336: if self._ffmpeg_available, the flag set at construction
FfmpegFirstAlways(available) == TRUE
FfmpegFirst(available) == available

\* lines 310-352, up to the cleanup that precedes a return
generate_reel(f, t, available, content_data, env) ==
    LET f1 == IF HasImage(content_data)
              THEN download_image(f, t, env.download).fs
              ELSE f
    IN  IF ~env.frame
        THEN ReelResult(Raises("OSError"), f1, FALSE, FALSE, FALSE, FALSE)
        ELSE LET f2 == WriteTo(f1, frame_path, t, MiB)
                 ff == _generate_video_ffmpeg(f2, t, available, env.ffmpeg, env.size)
             IN  IF FfmpegFirst(available) /\ ff.ok
                 THEN ReelResult(Returns(output_path), ff.fs, TRUE, TRUE, FALSE, FALSE)
                 ELSE LET mp == _generate_video_moviepy(f2, t, env.moviepy, env.size)
                      IN  IF mp.ok
                          THEN ReelResult(Returns(output_path), mp.fs,
                                          FfmpegFirst(available), FALSE, TRUE, TRUE)
                          ELSE ReelResult(EncodersFailed(output_path), mp.fs,
                                          FfmpegFirst(available), FALSE, TRUE, FALSE)

ReelContents == {DefaultContent, [DefaultContent EXCEPT !.image_url = "http://img"]}

VideoSizes == {0, MiB}

ReelEnvs ==
    [download : BOOLEAN, frame : BOOLEAN, ffmpeg : BOOLEAN, moviepy : BOOLEAN,
     size : VideoSizes]

NoReelOp == [op |-> "none"]

\* line 27: the availability of ffmpeg is probed once, at construction
InitReel ==
    /\ _ffmpeg_available \in BOOLEAN
    /\ reelOp = NoReelOp

\* one call of generate_reel; the call ends with cleanup_temp_files when an
\* encoder succeeded (lines 341 and 348)
GenerateReel ==
    /\ reelOp.op = "none"
    /\ fsOp.op = "none"
    /\ \E content_data \in ReelContents, env \in ReelEnvs :
         LET r == generate_reel(fs, fsNow, _ffmpeg_available, content_data, env)
             op == [op |-> "generate_reel", content_data |-> content_data, env |-> env,
                    available |-> _ffmpeg_available, outcome |-> r.outcome,
                    ffmpegTried |-> r.ffmpegTried, ffmpegOk |-> r.ffmpegOk,
                    moviepyTried |-> r.moviepyTried, moviepyOk |-> r.moviepyOk]
         IN  /\ reelOp' = op
             /\ IF r.outcome.kind = "return"
                THEN \E files \in Sorted(r.fs, Glob(r.fs, output_dir, Pattern("*", "jpg"))) :
                       \E failed \in SUBSET Elements(SliceFrom(files, 2)) :
                         fs' = cleanup_temp_files(r.fs, output_dir, Pattern("*", "jpg"),
                                                  2, files, failed)
                ELSE fs' = r.fs
    /\ UNCHANGED <<fsNow, fsOp, _ffmpeg_available, exceptFiles>>

\* the caller has taken the outcome
ReelReturn ==
    /\ reelOp.op # "none"
    /\ reelOp' = NoReelOp
    /\ UNCHANGED <<fs, fsNow, fsOp, _ffmpeg_available, exceptFiles>>

\* a stale frame or a file of another directory appears out of band
TouchStale == WriteFile({old_frame_path, other_path}, 1..MaxMtime, {MiB})

--------------------------------------------------------------------------
(***************************************************************************)
(* instagram_bot.InstagramBot (src/instagram_bot.py).                      *)
(*                                                                         *)
(* The state of a bot b is its flag _is_logged_in and whether its session  *)
(* file exists.  What the client and the operating system do in one        *)
(* invocation of a method is its environment env.  Every call made to the  *)
(* client or to the operating system is an event, recorded with the state  *)
(* of the bot at that moment.                                              *)
(***************************************************************************)
Bot(logged_in, session) == [logged_in |-> logged_in, session |-> session]

Ev(name, n, b) == [ev |-> name, n |-> n, logged_in |-> b.logged_in, session |-> b.session]

\* lines 52-55: os.remove(self.session_file), whose failure is ignored
SessionAfterRemoveKept(session, removed) == session
SessionAfterRemove(session, removed) == IF removed THEN FALSE ELSE session

\* lines 67-83: every except clause of login returns False
LoginErrorRaised(exc) == Raises(exc)
LoginError(exc) == Returns(FALSE)

\* lines 57-65 and 67-83: the fresh login, after the events so far
FreshLogin(b, env, events) ==
    LET evs == Append(events, Ev("client.login", 0, b))
    IN  CASE env.login = "ok" ->
               IF env.dump
               THEN [outcome |-> Returns(TRUE), b |-> Bot(TRUE, TRUE),
                     events |-> Append(evs, Ev("dump_settings", 0, b))]
               ELSE [outcome |-> LoginError("Exception"), b |-> Bot(FALSE, b.session),
                     events |-> Append(evs, Ev("dump_settings", 0, b))]
          [] env.login = "KeyboardInterrupt" ->
               [outcome |-> Interrupts, b |-> b, events |-> evs]
          [] OTHER ->
               [outcome |-> LoginError(env.login), b |-> Bot(FALSE, b.session),
                events |-> evs]

\* lines 39-83: one invocation of the body of login
login_body(b, env) ==
    IF b.session
    THEN LET loaded == <<Ev("load_settings", 0, b)>>
             verified == Append(loaded, Ev("account_info", 0, b))
         IN  IF env.verify = "ok"
             THEN [outcome |-> Returns(TRUE), b |-> Bot(TRUE, b.session),
                   events |-> verified]
             ELSE FreshLogin(Bot(b.logged_in, SessionAfterRemove(b.session, env.remove)),
                             env,
                             Append(IF env.verify = "load_fails" THEN loaded ELSE verified,
                                    Ev("remove", 0, b)))
    ELSE FreshLogin(b, env, <<>>)

\* the state of the bot before the i-th invocation of a wrapped body
BeforeRun(runs, b, i) == IF i = 1 THEN b ELSE runs[i - 1].b

\* The events of a wrapped call of method: each invocation of the body made
\* by the wrapper, followed by the events of the body, and each sleep of the
\* wrapper.
RECURSIVE BotEvents(_, _, _, _, _)
BotEvents(method, revents, runs, b, k) ==
    IF k > Len(revents) THEN <<>>
    ELSE LET e == revents[k]
         IN  (IF e.ev = "call"
              THEN <<Ev(method, e.n, BeforeRun(runs, b, e.n))>> \o runs[e.n].events
              ELSE <<Ev("sleep", e.n, runs[revents[k - 1].n].b)>>)
             \o BotEvents(method, revents, runs, b, k + 1)

\* A body of the bot under @retry(max_attempts, delay): the wrapper's
\* outcome, the bot after the last invocation made, and the events.
BotWrapped(method, max_attempts, delay, runs, b) ==
    LET r == retry(max_attempts, delay, 2, [i \in 1..Len(runs) |-> runs[i].outcome])
        n == Cardinality({i \in 1..Len(r.events) : r.events[i].ev = "call"})
    IN  [result |-> r,
         b |-> IF n = 0 THEN b ELSE runs[n].b,
         calls |-> n,
         events |-> BotEvents(method, r.events, runs, b, 1)]

RECURSIVE LoginRuns(_, _, _)
LoginRuns(b, envs, i) ==
    IF i > Len(envs) THEN <<>>
    ELSE LET r == login_body(b, envs[i])
         IN  <<r>> \o LoginRuns(r.b, envs, i + 1)

\* line 36: @retry(max_attempts=3, delay=2.0)
login(b, envs) == BotWrapped("login", 3, 2, LoginRuns(b, envs, 1), b)

\* the outcome of a wrapped call as the caller sees it
CallerOutcome(result) ==
    IF result.kind = "return" THEN Returns(result.value)
    ELSE IF result.exc = Interrupts.exc THEN Interrupts
    ELSE Raises(result.exc)

\* line 31: if not self.login()
LoginRefusedNever(outcome) == FALSE
LoginRefused(outcome) == outcome.kind = "return" /\ outcome.value # TRUE

\* line 94: if file_size_mb > 100, on the size in bytes
TooLargeOff(size_bytes) == FALSE
TooLarge(size_bytes) == size_bytes > 100 * MiB

Media == [id |-> "media"]

\* lines 100-115: client.clip_upload and what post_reel makes of it; an
\* upload that returns None fails at media.id (line 107)
Upload(b, env, events) ==
    LET evs == Append(events, Ev("clip_upload", 0, b))
    IN  CASE env.upload = "ok" -> [outcome |-> Returns(Media), b |-> b, events |-> evs]
          [] env.upload = "none" ->
               [outcome |-> Raises("AttributeError"), b |-> b, events |-> evs]
          [] env.upload = "KeyboardInterrupt" ->
               [outcome |-> Interrupts, b |-> b, events |-> evs]
          [] OTHER -> [outcome |-> Raises(env.upload), b |-> b, events |-> evs]

\* lines 88-115 with _ensure_login (lines 27-33): one invocation of the body
\* of post_reel on the file system f
post_reel_body(b, f, video_path, env) ==
    LET l == IF ~b.logged_in
             THEN login(b, <<env.login, env.login, env.login>>)
             ELSE [result |-> [kind |-> "return", value |-> TRUE, exc |-> NoExc],
                   b |-> b, events |-> <<>>]
        o == CallerOutcome(l.result)
    IN  IF o.kind = "interrupt" \/ o.kind = "raise"
        THEN [outcome |-> o, b |-> l.b, events |-> l.events]
        ELSE IF LoginRefused(o)
        THEN [outcome |-> Raises("Exception"), b |-> l.b, events |-> l.events]
        ELSE IF ~f[video_path].exists
        THEN [outcome |-> Raises("FileNotFoundError"), b |-> l.b, events |-> l.events]
        ELSE IF TooLarge(f[video_path].size)
        THEN [outcome |-> Raises("ValueError"), b |-> l.b, events |-> l.events]
        ELSE Upload(l.b, env, l.events)

RECURSIVE PostReelRuns(_, _, _, _, _)
PostReelRuns(b, f, video_path, envs, i) ==
    IF i > Len(envs) THEN <<>>
    ELSE LET r == post_reel_body(b, f, video_path, envs[i])
         IN  <<r>> \o PostReelRuns(r.b, f, video_path, envs, i + 1)

\* line 85: @retry(max_attempts=2, delay=5.0)
post_reel(b, f, video_path, envs) ==
    BotWrapped("post_reel", 2, 5, PostReelRuns(b, f, video_path, envs, 1), b)

\* lines 153-163
is_logged_in(b, account_info_ok) ==
    IF ~b.logged_in
    THEN [value |-> FALSE, b |-> b, events |-> <<>>]
    ELSE IF account_info_ok
    THEN [value |-> TRUE, b |-> b, events |-> <<Ev("account_info", 0, b)>>]
    ELSE [value |-> FALSE, b |-> Bot(FALSE, b.session),
          events |-> <<Ev("account_info", 0, b)>>]

\* lines 171-174: an exception of client.logout is swallowed and the finally
\* clause clears the flag
FlagAfterLogoutKeptOnError(logged_in, client_logout_ok) ==
    logged_in /\ ~client_logout_ok
FlagAfterLogout(logged_in, client_logout_ok) == FALSE

\* lines 165-174: client.logout is called when the flag is set, and succeeds
\* or raises
logout(b, client_logout_ok) ==
    [b |-> Bot(FlagAfterLogout(b.logged_in, client_logout_ok), b.session),
     events |-> IF b.logged_in THEN <<Ev("client.logout", 0, b)>> ELSE <<>>]

profile_pic_path == Path(".", "profile_pic", "jpg")

\* lines 120-151 with _ensure_login (lines 27-33): one invocation of the body
\* of get_profile_pic; every exception of the download is caught and gives
\* None, and the picture is saved when the path is returned
get_profile_pic_body(b, env) ==
    LET l == IF ~b.logged_in
             THEN login(b, <<env.login, env.login, env.login>>)
             ELSE [result |-> [kind |-> "return", value |-> TRUE, exc |-> NoExc],
                   b |-> b, events |-> <<>>]
        o == CallerOutcome(l.result)
        evs == Append(l.events, Ev("account_info", 0, l.b))
    IN  IF o.kind = "interrupt" \/ o.kind = "raise"
        THEN [outcome |-> o, b |-> l.b, events |-> l.events]
        ELSE IF LoginRefused(o)
        THEN [outcome |-> Raises("Exception"), b |-> l.b, events |-> l.events]
        ELSE CASE env.download = "ok" ->
                    [outcome |-> Returns(profile_pic_path), b |-> l.b, events |-> evs]
               [] env.download = "KeyboardInterrupt" ->
                    [outcome |-> Interrupts, b |-> l.b, events |-> evs]
               [] OTHER ->
                    [outcome |-> Returns(None), b |-> l.b, events |-> evs]

RECURSIVE ProfilePicRuns(_, _, _)
ProfilePicRuns(b, envs, i) ==
    IF i > Len(envs) THEN <<>>
    ELSE LET r == get_profile_pic_body(b, envs[i])
         IN  <<r>> \o ProfilePicRuns(r.b, envs, i + 1)

\* line 117: @retry(max_attempts=2, delay=2.0)
get_profile_pic(b, envs) ==
    BotWrapped("get_profile_pic", 2, 2, ProfilePicRuns(b, envs, 1), b)

\* what the client answers to client.login, or the interrupt of the user
LoginOutcomes ==
    {"ok", "ChallengeRequired", "LoginRequired", "PleaseWaitFewMinutes", "Exception",
     "KeyboardInterrupt"}

\* the environment of one invocation of the body of login: whether the saved
\* session loads and verifies, whether os.remove succeeds, what client.login
\* answers and whether dump_settings succeeds
LoginEnvs ==
    [verify : {"ok", "load_fails", "account_info_fails"}, remove : BOOLEAN,
     login : LoginOutcomes, dump : BOOLEAN]

\* what client.clip_upload does
UploadOutcomes == {"ok", "none", "PleaseWaitFewMinutes", "Exception", "KeyboardInterrupt"}

\* the environments of the invocations of the body of post_reel
PostLoginEnvs ==
    {e \in LoginEnvs : /\ e.remove /\ e.dump
                       /\ e.verify \in {"ok", "account_info_fails"}
                       /\ e.login \in {"ok", "LoginRequired", "KeyboardInterrupt"}}
PostEnvs == [login : PostLoginEnvs, upload : UploadOutcomes]
PostEnvSeqs == [1..2 -> PostEnvs]

\* sizes in bytes around the ceiling of line 94
UploadSizes == {MiB, 100 * MiB, 100 * MiB + 1}

NoBotOp == [op |-> "none"]

\* lines 17-22; no session file has been saved yet
InitBot ==
    /\ _is_logged_in = FALSE
    /\ session_file = FALSE
    /\ botOp = NoBotOp

TheBot == Bot(_is_logged_in, session_file)

\* one call of login
Login ==
    /\ botOp.op = "none"
    /\ \E env \in LoginEnvs :
         LET r == login(TheBot, <<env, env, env>>)
         IN  /\ _is_logged_in' = r.b.logged_in
             /\ session_file' = r.b.session
             /\ botOp' = [op |-> "login", before |-> TheBot, env |-> env,
                          outcome |-> CallerOutcome(r.result), calls |-> r.calls,
                          events |-> r.events]
    /\ UNCHANGED exceptBot

\* one call of post_reel
PostReel ==
    /\ botOp.op = "none"
    /\ \E envs \in PostEnvSeqs :
         LET r == post_reel(TheBot, fs, output_path, envs)
         IN  /\ _is_logged_in' = r.b.logged_in
             /\ session_file' = r.b.session
             /\ botOp' = [op |-> "post_reel", before |-> TheBot, envs |-> envs,
                          video |-> fs[output_path],
                          outcome |-> CallerOutcome(r.result), calls |-> r.calls,
                          events |-> r.events]
    /\ UNCHANGED exceptBot

\* one call of is_logged_in
IsLoggedIn ==
    /\ botOp.op = "none"
    /\ \E account_info_ok \in BOOLEAN :
         LET r == is_logged_in(TheBot, account_info_ok)
         IN  /\ _is_logged_in' = r.b.logged_in
             /\ botOp' = [op |-> "is_logged_in", before |-> TheBot,
                          outcome |-> Returns(r.value), events |-> r.events]
    /\ UNCHANGED <<session_file, exceptBot>>

\* one call of logout
Logout ==
    /\ botOp.op = "none"
    /\ \E client_logout_ok \in BOOLEAN :
         LET r == logout(TheBot, client_logout_ok)
         IN  /\ _is_logged_in' = r.b.logged_in
             /\ botOp' = [op |-> "logout", before |-> TheBot,
                          client_logout_ok |-> client_logout_ok,
                          outcome |-> Returns(None), events |-> r.events]
    /\ UNCHANGED <<session_file, exceptBot>>

\* what the client does during the invocations of the body of get_profile_pic
ProfilePicEnvs == [login : PostLoginEnvs, download : {"ok", "error", "KeyboardInterrupt"}]
ProfilePicEnvSeqs == [1..2 -> ProfilePicEnvs]

\* one call of get_profile_pic
GetProfilePic ==
    /\ botOp.op = "none"
    /\ \E envs \in ProfilePicEnvSeqs :
         LET r == get_profile_pic(TheBot, envs)
         IN  /\ _is_logged_in' = r.b.logged_in
             /\ session_file' = r.b.session
             /\ fs' = IF CallerOutcome(r.result) = Returns(profile_pic_path)
                      THEN WriteTo(fs, profile_pic_path, fsNow, MiB)
                      ELSE fs
             /\ botOp' = [op |-> "get_profile_pic", before |-> TheBot, envs |-> envs,
                          outcome |-> CallerOutcome(r.result), calls |-> r.calls,
                          events |-> r.events]
    /\ UNCHANGED <<retryVars, contentVars, wrapVars, fsNow, fsOp, reelVars, schedVars>>

\* the caller has taken the outcome
BotReturn ==
    /\ botOp.op # "none"
    /\ botOp' = NoBotOp
    /\ UNCHANGED <<_is_logged_in, session_file, exceptBot>>

\* a video is stored at the output path
StoreVideo == botOp.op = "none" /\ WriteFile({output_path}, {1}, UploadSizes)

--------------------------------------------------------------------------
(***************************************************************************)
(* scheduler.ReelScheduler (src/scheduler.py) over Config (src/config.py). *)
(*                                                                         *)
(* The scheduler holds a bot, a content generator and a reel generator,    *)
(* each None until it is set.  The objects themselves are the ones of the  *)
(* sections above: the bot is _is_logged_in and session_file, the content  *)
(* generator is cache, the reel generator is _ffmpeg_available.  One pass  *)
(* of post_daily_reel is a run: the calls it made in order with what each  *)
(* gave, the events of the bot, the sources contacted over the network     *)
(* and the outcome.                                                        *)
(***************************************************************************)
\* config.py 13-33: the attributes the class Config defines
ConfigAttributes ==
    {"INSTAGRAM_USERNAME", "INSTAGRAM_PASSWORD", "POSTING_TIME", "NASA_API_KEY",
     "SPACE_NEWS_RSS", "REEL_DURATION", "REEL_FPS", "PROFILE_PIC_PATH", "BASE_HASHTAGS"}

\* Config.<name>: reading an attribute the class does not define raises
HasAttribute(name) == name \in ConfigAttributes

\* config.py 36-40: Config.validate(), on whether both credentials are set
validate(credentials) ==
    IF ~credentials THEN Raises("ValueError") ELSE Returns(TRUE)

\* scheduler.py 56-79: line 59 reads Config.USE_LOGO before anything else
_ensure_profile_picture ==
    IF ~HasAttribute("USE_LOGO") THEN Raises("AttributeError") ELSE Returns(None)

\* what a run or a start-up has not decided yet
Pending == [kind |-> "pending"]

Called(name, outcome) == [call |-> name, outcome |-> outcome]

\* scheduler.py 137-144: KeyboardInterrupt is raised again, every other
\* exception ends the run with False
Handle(outcome) ==
    IF outcome.kind = "interrupt" THEN Interrupts ELSE Returns(FALSE)

\* scheduler.py 26-54 on the scheduler r: a new bot (line 33, logged out), a
\* new content generator (line 36, empty cache), then _ensure_profile_picture
\* (line 39) and the reel generator (lines 42-47, reading Config.USE_LOGO);
\* every exception gives False (lines 52-54)
_initialize_components(r, credentials) ==
    IF validate(credentials).kind = "raise"
    THEN [ok |-> FALSE, r |-> r]
    ELSE LET r1 == [r EXCEPT !.bot = TRUE, !.b = Bot(FALSE, r.b.session),
                             !.content_gen = TRUE, !.cache = [k \in {} |-> None]]
         IN  IF _ensure_profile_picture.kind = "raise" \/ ~HasAttribute("USE_LOGO")
             THEN [ok |-> FALSE, r |-> r1]
             ELSE [ok |-> TRUE, r |-> [r1 EXCEPT !.reel_gen = TRUE]]

\* scheduler.py 90: all([self.bot, self.content_gen, self.reel_gen])
AllComponents(r) == r.bot /\ r.content_gen /\ r.reel_gen

\* scheduler.py 90-93
Initialize(r, credentials) ==
    IF AllComponents(r) THEN r
    ELSE LET i == _initialize_components(r, credentials)
         IN  [i.r EXCEPT !.calls = Append(@, Called("_initialize_components",
                                                    Returns(i.ok))),
                         !.outcome = IF i.ok THEN Pending ELSE Returns(FALSE)]

\* scheduler.py 98: if not self.bot.login()
LoginFailedIgnored(outcome) == FALSE
LoginFailed(outcome) == outcome.kind = "return" /\ outcome.value # TRUE

\* scheduler.py 96-100, given what is_logged_in gave (c) and what login gives
\* after it (l)
EnsureLoggedIn(r, c, l) ==
    LET r1 == [r EXCEPT !.b = c.b, !.events = @ \o c.events,
                        !.calls = Append(@, Called("is_logged_in", Returns(c.value)))]
        o == CallerOutcome(l.result)
        r2 == [r1 EXCEPT !.b = l.b, !.events = @ \o l.events,
                         !.calls = Append(@, Called("login", o))]
    IN  IF c.value THEN r1
        ELSE IF o.kind # "return" THEN [r2 EXCEPT !.outcome = Handle(o)]
        ELSE IF LoginFailed(o) THEN [r2 EXCEPT !.outcome = Returns(FALSE)]
        ELSE r2

\* scheduler.py 104: self.content_gen.get_content_for_reel(), which gave g
FetchContent(r, g) ==
    LET r1 == [r EXCEPT !.cache = g.cache, !.contacted = @ \o g.contacted,
                        !.calls = Append(@, Called("get_content_for_reel", g.outcome))]
    IN  IF g.outcome.kind # "return" THEN [r1 EXCEPT !.outcome = Handle(g.outcome)]
        ELSE [r1 EXCEPT !.content_data = g.outcome.value]

\* scheduler.py 108-109: self.content_gen.generate_caption(), which gave g
MakeCaption(r, g) ==
    LET r1 == [r EXCEPT !.cache = g.cache, !.contacted = @ \o g.contacted,
                        !.calls = Append(@, Called("generate_caption", g.outcome))]
    IN  IF g.outcome.kind # "return" THEN [r1 EXCEPT !.outcome = Handle(g.outcome)]
        ELSE [r1 EXCEPT !.caption_data = g.outcome.value]

\* scheduler.py 113-116: self.reel_gen.generate_reel(content_data, ...), which
\* gave g before its cleanup_temp_files(output_dir, "*.jpg", 2), run when it
\* returns
Render(r, g, files, failed) ==
    LET r1 == [r EXCEPT !.calls = Append(@, Called("generate_reel", g.outcome))]
    IN  IF g.outcome.kind # "return"
        THEN [r1 EXCEPT !.fs = g.fs, !.outcome = Handle(g.outcome)]
        ELSE [r1 EXCEPT !.fs = cleanup_temp_files(g.fs, output_dir, Pattern("*", "jpg"),
                                                  2, files, failed),
                        !.reel_path = g.outcome.value]

\* scheduler.py 119: if not validate_video_file(reel_path)
InvalidAccepted(valid) == FALSE
Invalid(valid) == ~valid

\* scheduler.py 119-120
Validate(r) ==
    LET valid == validate_video_file(r.fs, r.reel_path, DefaultMinSize)
        r1 == [r EXCEPT !.calls = Append(@, Called("validate_video_file", Returns(valid)))]
    IN  IF Invalid(valid) THEN [r1 EXCEPT !.outcome = Handle(Raises("Exception"))]
        ELSE r1

\* scheduler.py 124-135: self.bot.post_reel(reel_path, caption), which gave
\* p, and the result of the run
Post(r, p) ==
    LET o == CallerOutcome(p.result)
        r1 == [r EXCEPT !.b = p.b, !.events = @ \o p.events,
                        !.calls = Append(@, Called("post_reel", o))]
    IN  IF o.kind # "return" THEN [r1 EXCEPT !.outcome = Handle(o)]
        ELSE IF o.value = None THEN [r1 EXCEPT !.outcome = Returns(FALSE)]
        ELSE [r1 EXCEPT !.media = o.value, !.outcome = Returns(TRUE)]

\* what the client answers to the bot during a run
SchedLoginEnvs == PostLoginEnvs
SchedPostEnvs ==
    {e \in PostEnvs : /\ e.login.verify = "ok" /\ e.login.login = "ok"
                      /\ e.upload \in {"ok", "Exception", "KeyboardInterrupt"}}
SchedPostEnvSeqs == [1..2 -> SchedPostEnvs]

\* what the network answers to the content generator during a run
SchedApodNets ==
    {NetSeq(a, RequestError, 3) : a \in {ApodOk(ScenarioData), ApodOk([url |-> ""]),
                                         RequestError}}
SchedNewsNets ==
    {NetSeq(n, OtherError, 2) :
       n \in {FeedOk(<<CHOOSE e \in NewsEntries : DictGet(e, "link", "") = "http://n1">>),
              OtherError}}

\* what the rendering steps do during a run
SchedReelEnvs == {e \in ReelEnvs : e.download /\ e.ffmpeg = e.moviepy}

\* The runs after each stage of post_daily_reel (scheduler.py 88-135): a
\* stage is run on the runs that are still pending, in every environment.
AfterInitialize(R, credentials) ==
    {IF r.outcome # Pending THEN r ELSE Initialize(r, credentials) : r \in R}

AfterEnsureLoggedIn(R) ==
    UNION {IF r.outcome # Pending THEN {r}
           ELSE UNION {{EnsureLoggedIn(r, c, l) :
                          l \in {login(c.b, <<env, env, env>>) : env \in SchedLoginEnvs}} :
                       c \in {is_logged_in(r.b, ok) : ok \in BOOLEAN}} :
           r \in R}

AfterFetchContent(R, t) ==
    UNION {IF r.outcome # Pending THEN {r}
           ELSE {FetchContent(r, g) :
                   g \in {get_content_for_reel(r.cache, t, a, n) :
                            a \in SchedApodNets, n \in SchedNewsNets}} :
           r \in R}

AfterMakeCaption(R, t) ==
    UNION {IF r.outcome # Pending THEN {r}
           ELSE {MakeCaption(r, g) :
                   g \in {generate_caption("apod", r.cache, t, a, n) :
                            a \in SchedApodNets, n \in SchedNewsNets}} :
           r \in R}

\* the orders in which the glob can list the frames after rendering, and the
\* deletions that can fail
RenderOne(r, g) ==
    UNION {{Render(r, g, files, failed) :
              failed \in SUBSET Elements(SliceFrom(files, 2))} :
           files \in Sorted(g.fs, Glob(g.fs, output_dir, Pattern("*", "jpg")))}

AfterRender(R, t, available) ==
    UNION {IF r.outcome # Pending THEN {r}
           ELSE UNION {RenderOne(r, g) :
                         g \in {generate_reel(r.fs, t, available, r.content_data, env) :
                                  env \in SchedReelEnvs}} :
           r \in R}

AfterValidate(R) == {IF r.outcome # Pending THEN r ELSE Validate(r) : r \in R}

AfterPost(R) ==
    UNION {IF r.outcome # Pending THEN {r}
           ELSE {Post(r, p) :
                   p \in {post_reel(r.b, r.fs, r.reel_path, envs) :
                            envs \in SchedPostEnvSeqs}} :
           r \in R}

\* scheduler.py 81-144: the runs of post_daily_reel from the scheduler r
post_daily_reel(r, credentials, t, ft, available) ==
    AfterPost(AfterValidate(AfterRender(AfterMakeCaption(AfterFetchContent(
        AfterEnsureLoggedIn(AfterInitialize({r}, credentials)), t), t), ft, available)))

\* scheduler.py 167-172: the handler of KeyboardInterrupt: the bot is logged
\* out, then the reel generator cleans up (reel_generator.py 354-356); files
\* is the listing of the frames and failed the deletions that fail
OnInterrupt(r, client_logout_ok, files, failed) ==
    LET l == logout(r.b, client_logout_ok)
        r1 == IF r.bot
              THEN [r EXCEPT !.b = l.b, !.events = @ \o l.events,
                             !.calls = Append(@, Called("logout", Returns(None)))]
              ELSE r
    IN  IF r.reel_gen
        THEN [r1 EXCEPT !.fs = cleanup_temp_files(r1.fs, output_dir, Pattern("*", "jpg"),
                                                  2, files, failed),
                        !.calls = Append(@, Called("cleanup", Returns(None)))]
        ELSE r1

\* scheduler.py 146-172: a failed initialisation ends the process with
\* status 1 (lines 155-157); otherwise the loop of lines 163-166 polls until
\* KeyboardInterrupt, which the handler answers before run_scheduler returns
run_scheduler(r, credentials, client_logout_ok, files, failed) ==
    LET i == _initialize_components(r, credentials)
    IN  IF ~i.ok THEN [r |-> i.r, state |-> "exited", status |-> 1]
        ELSE [r |-> OnInterrupt(i.r, client_logout_ok, files, failed),
              state |-> "stopped", status |-> 0]

\* test_post.py 15-20: sys.exit(0) if success else sys.exit(1); an interrupt
\* is not caught and ends the interpreter with the status of SIGINT
ExitStatusAlwaysZero(outcome) == 0
ExitStatus(outcome) ==
    IF outcome.kind = "interrupt" THEN 130
    ELSE IF outcome = Returns(TRUE) THEN 0 ELSE 1

NoSchedOp == [op |-> "none"]

\* scheduler.py 20-24
InitSched ==
    /\ bot = FALSE
    /\ content_gen = FALSE
    /\ reel_gen = FALSE
    /\ schedOp = NoSchedOp

\* the scheduler as a run starts on it
TheScheduler ==
    [bot |-> bot, content_gen |-> content_gen, reel_gen |-> reel_gen,
     b |-> TheBot, cache |-> cache, fs |-> fs,
     calls |-> <<>>, events |-> <<>>, contacted |-> <<>>, outcome |-> Pending,
     content_data |-> None, caption_data |-> None, reel_path |-> None, media |-> None]

\* the scheduler is as the run or the start-up r left it
SchedulerBecomes(r) ==
    /\ bot' = r.bot
    /\ content_gen' = r.content_gen
    /\ reel_gen' = r.reel_gen
    /\ _is_logged_in' = r.b.logged_in
    /\ session_file' = r.b.session
    /\ cache' = r.cache
    /\ fs' = r.fs

\* what the actions of the scheduler leave unchanged
exceptSched ==
    <<retryVars, wrapVars, now, genOp, fsNow, fsOp, reelVars, botOp>>

\* a new ReelScheduler (scheduler.py 20-24), whose bot and content generator
\* will be new ones
NewScheduler ==
    [TheScheduler EXCEPT !.bot = FALSE, !.content_gen = FALSE, !.reel_gen = FALSE,
                         !.b = Bot(FALSE, session_file),
                         !.cache = [k \in {} |-> None]]

\* One pass of post_daily_reel (scheduler.py 81-144); the client that
\* installed the components has its credentials configured.
PostDailyReel ==
    /\ schedOp.op = "none"
    /\ \E credentials \in IF AllComponents(TheScheduler) THEN {TRUE} ELSE BOOLEAN :
       \E r \in post_daily_reel(TheScheduler, credentials, now, fsNow,
                                 _ffmpeg_available) :
         /\ SchedulerBecomes(r)
         /\ schedOp' = [op |-> "post_daily_reel", before |-> TheScheduler,
                        credentials |-> credentials,
                        calls |-> r.calls, events |-> r.events,
                        contacted |-> r.contacted, outcome |-> r.outcome,
                        content_data |-> r.content_data,
                        caption_data |-> r.caption_data, fs |-> r.fs]
    /\ UNCHANGED exceptSched

\* run_scheduler is started and runs until it exits or is interrupted
\* (scheduler.py 146-172).
RunScheduler ==
    /\ schedOp.op = "none"
    /\ \E credentials, client_logout_ok \in BOOLEAN :
       \E files \in Sorted(fs, Glob(fs, output_dir, Pattern("*", "jpg"))) :
       \E failed \in SUBSET Elements(SliceFrom(files, 2)) :
         LET s == run_scheduler(TheScheduler, credentials, client_logout_ok,
                                files, failed)
         IN  /\ SchedulerBecomes(s.r)
             /\ schedOp' = [op |-> "run_scheduler", credentials |-> credentials,
                            state |-> s.state, status |-> s.status,
                            calls |-> s.r.calls]
    /\ UNCHANGED exceptSched

\* The one-shot entry point (test_post.py 8-20): a new ReelScheduler, one
\* call of post_daily_reel, and sys.exit.
TestPostMain ==
    /\ schedOp.op = "none"
    /\ \E credentials \in BOOLEAN :
       \E r \in post_daily_reel(NewScheduler, credentials, now, fsNow,
                                 _ffmpeg_available) :
         /\ SchedulerBecomes(r)
         /\ schedOp' = [op |-> "main", credentials |-> credentials,
                        calls |-> r.calls, outcome |-> r.outcome,
                        state |-> "exited", status |-> ExitStatus(r.outcome)]
    /\ UNCHANGED exceptSched

\* The components are public attributes (scheduler.py 21-23) and line 90
\* runs _initialize_components only when one of them is missing: a client
\* sets them itself, the reel generator with a logo_path of its own
\* (reel_generator.py 24).
InstallComponents ==
    /\ schedOp.op = "none"
    /\ ~AllComponents(TheScheduler)
    /\ SchedulerBecomes([TheScheduler EXCEPT !.bot = TRUE, !.content_gen = TRUE,
                                             !.reel_gen = TRUE,
                                             !.b = Bot(FALSE, session_file),
                                             !.cache = [k \in {} |-> None]])
    /\ UNCHANGED <<schedOp, exceptSched>>

\* The caller has taken the outcome; after sys.exit the next process starts
\* from a new ReelScheduler (scheduler.py 176, 20-24).
SchedReturn ==
    /\ schedOp.op # "none"
    /\ schedOp' = NoSchedOp
    /\ IF schedOp.op \in {"run_scheduler", "main"} /\ schedOp.state = "exited"
       THEN SchedulerBecomes(NewScheduler)
       ELSE SchedulerBecomes(TheScheduler)
    /\ UNCHANGED exceptSched

--------------------------------------------------------------------------
(***************************************************************************)
(* Specifications: one per component.                                      *)
(***************************************************************************)
Init ==
    /\ InitRetry /\ InitContent /\ InitWrap /\ InitFiles /\ InitReel /\ InitBot
    /\ InitSched

NextRetry == RetryCall \/ RetryReturn
SpecRetry == Init /\ [][NextRetry]_vars

NextCaption == CaptionTick \/ GenerateCaption
SpecCaption == Init /\ [][NextCaption]_vars

NextReelContent == Tick \/ GetContentForReel
SpecReelContent == Init /\ [][NextReelContent]_vars

NextFetch == FetchTick \/ GetNasaApod \/ GetTrendingSpaceNews \/ FetchReturn
SpecFetch == Init /\ [][NextFetch]_vars

NextWrap == WrapText \/ WrapReturn
SpecWrap == Init /\ [][NextWrap]_vars

NextCleanup == TouchFile \/ CleanupTempFiles \/ FsReturn
SpecCleanup == Init /\ [][NextCleanup]_vars

NextValidate == StoreFile \/ ValidateVideoFile \/ FsReturn
SpecValidate == Init /\ [][NextValidate]_vars

NextReel == FsTick \/ TouchStale \/ GenerateReel \/ ReelReturn
SpecReel == Init /\ [][NextReel]_vars

NextBot ==
    Login \/ PostReel \/ GetProfilePic \/ IsLoggedIn \/ Logout \/ BotReturn \/ StoreVideo
SpecBot == Init /\ [][NextBot]_vars

NextSched ==
    InstallComponents \/ PostDailyReel \/ RunScheduler \/ TestPostMain \/ SchedReturn
SpecSched == Init /\ [][NextSched]_vars

--------------------------------------------------------------------------
(***************************************************************************)
(* Claims about retry.                                                     *)
(***************************************************************************)
RetryDone == retryCall.result.kind # "none"
RetryEvents == retryCall.result.events
RetryCalls == {i \in 1..Len(RetryEvents) : RetryEvents[i].ev = "call"}
RetrySleeps == SelectSeq(RetryEvents, LAMBDA e : e.ev = "sleep")
NumCalls == Cardinality(RetryCalls)

RECURSIVE Pow(_, _)
Pow(b, k) == IF k = 0 THEN 1 ELSE b * Pow(b, k - 1)

\* C1: for max_attempts = N >= 1 the wrapped function is invoked at most N
\* times; the first invocation that returns normally is the last one and its
\* value is returned; when all N invocations raise, the exception of the N-th
\* invocation reaches the caller.
C1_RetryAtMostNAndPropagates ==
    (RetryDone /\ retryCall.max_attempts >= 1) =>
        LET N == retryCall.max_attempts
            outs == retryCall.outcomes
            res == retryCall.result
        IN  /\ NumCalls <= N
            /\ NumCalls >= 1
            /\ \A i \in 1..N :
                 (outs[i].kind = "return" /\ \A j \in 1..(i - 1) : outs[j].kind = "raise")
                    => /\ NumCalls = i
                       /\ res.kind = "return"
                       /\ res.value = outs[i].value
            /\ (\A i \in 1..N : outs[i].kind = "raise")
                    => /\ NumCalls = N
                       /\ res.kind = "raise"
                       /\ res.exc = outs[N].exc

\* C1 witness: three attempts, the first two raise E1, the third raises E2,
\* and E2 reaches the caller.
C1_Witness ==
    /\ RetryDone
    /\ retryCall.max_attempts = 3
    /\ retryCall.outcomes = <<Raises("E1"), Raises("E1"), Raises("E2")>>
    /\ retryCall.result.kind = "raise"
    /\ retryCall.result.exc = "E2"
    /\ NumCalls = 3

\* C2: the k-th sleep lasts delay * backoff^(k-1); the events alternate
\* call, sleep, call, ..., ending with a call, so exactly one sleep separates
\* two consecutive invocations and none follows the last one; a call that
\* fails every time sleeps max_attempts - 1 times.
C2_SleepSchedule ==
    (RetryDone /\ retryCall.max_attempts >= 1) =>
        LET N == retryCall.max_attempts
            ev == RetryEvents
        IN  /\ \A k \in 1..Len(RetrySleeps) :
                 RetrySleeps[k].n = retryCall.delay * Pow(retryCall.backoff, k - 1)
            /\ \A i \in 1..Len(ev) :
                 ev[i].ev = (IF i % 2 = 1 THEN "call" ELSE "sleep")
            /\ Len(ev) % 2 = 1
            /\ Len(RetrySleeps) = NumCalls - 1
            /\ (\A i \in 1..N : retryCall.outcomes[i].kind = "raise")
                    => Len(RetrySleeps) = N - 1

\* C2 witness: delay 2, backoff 3, three failures: sleeps of 2 then 6.
C2_Witness ==
    /\ RetryDone
    /\ retryCall.max_attempts = 3
    /\ retryCall.delay = 2
    /\ retryCall.backoff = 3
    /\ \A i \in 1..3 : retryCall.outcomes[i].kind = "raise"
    /\ RetrySleeps = <<SleepEvent(2), SleepEvent(6)>>


--------------------------------------------------------------------------
(***************************************************************************)
(* Claims about ContentGenerator.                                          *)
(***************************************************************************)
CaptionDone == genOp.op = "generate_caption"
CaptionReturned == CaptionDone /\ genOp.outcome.kind = "return"

\* sub occurs in s as a run of consecutive characters
IsSubstring(sub, s) ==
    \E i \in 0..(Len(s) - Len(sub)) : SubSeq(s, i + 1, i + Len(sub)) = sub

EndsWith(s, suffix) ==
    /\ Len(suffix) <= Len(s)
    /\ SubSeq(s, Len(s) - Len(suffix) + 1, Len(s)) = suffix

\* C3: whatever the sources do and whichever content type is requested,
\* generate_caption returns (it does not raise) a result with a non-empty
\* caption and a content record that is not None.
C3_CaptionNeverFails ==
    CaptionDone =>
        /\ genOp.outcome.kind = "return"
        /\ Len(genOp.outcome.value.caption) > 0
        /\ genOp.outcome.value.content # None

\* C3 witness: both sources were contacted, both returned nothing, and the
\* caption was built from the placeholder.
C3_Witness ==
    /\ CaptionReturned
    /\ genOp.contacted = <<"apod", "news">>
    /\ genOp.empty = <<"apod", "news">>
    /\ genOp.outcome.value.content.title = Str_AmazingSpaceDiscovery
    /\ Len(genOp.outcome.value.caption) > 0

\* The body of a caption: what stands between the title line and the
\* follow line.
CaptionBody(result) ==
    LET head == Len(Str_Rocket) + Len(result.content.title) + 2
        tail == 2 + Len(Str_FollowLine) + 2 + Len(HashtagBlock)
    IN  SubSeq(result.caption, head + 1, Len(result.caption) - tail)

\* C4: when the tag-stripped body text is longer than 2000 characters, the
\* body in the caption is at most 2000 characters long, ends with "...", and
\* the text before the "..." is a prefix of the stripped text that stops
\* right before a space of it (a word boundary).
C4_TruncatedWithinBudgetAtWordBoundary ==
    CaptionReturned =>
        LET stripped == StripTags(Explanation(genOp.outcome.value.content))
            body == CaptionBody(genOp.outcome.value)
            kept == Len(body) - Len(Str_Ellipsis)
        IN  Len(stripped) > max_caption_length =>
                /\ Len(body) <= max_caption_length
                /\ EndsWith(body, Str_Ellipsis)
                /\ SubSeq(body, 1, kept) = SubSeq(stripped, 1, kept)
                /\ stripped[kept + 1] = " "

\* The first ten base hashtags joined by spaces, spelled out.
C8_HashtagBlock ==
    <<"#", "s", "p", "a", "c", "e", " ", "#", "a", "s", "t", "r", "o",
      "n", "o", "m", "y", " ", "#", "n", "a", "s", "a", " ", "#", "s",
      "p", "a", "c", "e", "x", " ", "#", "u", "n", "i", "v", "e", "r",
      "s", "e", " ", "#", "c", "o", "s", "m", "o", "s", " ", "#", "a",
      "s", "t", "r", "o", "p", "h", "y", "s", "i", "c", "s", " ", "#",
      "s", "p", "a", "c", "e", "e", "x", "p", "l", "o", "r", "a", "t",
      "i", "o", "n", " ", "#", "v", "e", "n", "t", "u", "r", "e", "u",
      "n", "i", "v", "e", "r", "s", "e", " ", "#", "s", "p", "a", "c",
      "e", "n", "e", "w", "s">>

\* C8: when the content is the daily picture "Nebula X" with explanation
\* "<p>Wow</p>", url "http://img" and date "2024-01-01", the caption contains
\* "Nebula X", contains neither "<" nor ">", and ends with the first ten base
\* hashtags joined by spaces.
C8_NebulaScenario ==
    (CaptionReturned /\ genOp.outcome.value.content = ApodResult(ScenarioData, 0)) =>
        LET caption == genOp.outcome.value.caption
        IN  /\ IsSubstring(Str_NebulaX, caption)
            /\ ~Contains(caption, "<")
            /\ ~Contains(caption, ">")
            /\ EndsWith(caption, C8_HashtagBlock)

\* C8 witness: the endpoint was contacted in this call and returned the
\* scenario's record, from which the caption was built.
C8_Witness ==
    /\ CaptionReturned
    /\ genOp.arg = "apod"
    /\ genOp.contacted = <<"apod">>
    /\ genOp.outcome.value.content.title = Str_NebulaX
    /\ genOp.outcome.value.content.explanation = Str_PWow
    /\ genOp.outcome.value.content.image_url = "http://img"
    /\ genOp.outcome.value.content.date = "2024-01-01"

ReelContentDone == genOp.op = "get_content_for_reel"

\* C9: get_content_for_reel always returns a record whose type is "apod",
\* "news" or "default", and the type is "default" when both the daily-picture
\* fetch and the news fetch returned nothing.
C9_ReelContentType ==
    ReelContentDone =>
        /\ genOp.outcome.kind = "return"
        /\ genOp.outcome.value # None
        /\ genOp.outcome.value.type \in {"apod", "news", "default"}
        /\ (genOp.empty = <<"apod", "news">> => genOp.outcome.value.type = "default")

\* C9 witness: both fetches contacted the network and returned nothing.
C9_Witness ==
    /\ ReelContentDone
    /\ genOp.contacted = <<"apod", "news">>
    /\ genOp.empty = <<"apod", "news">>
    /\ genOp.outcome.kind = "return"
    /\ genOp.outcome.value.type = "default"

--------------------------------------------------------------------------
(***************************************************************************)
(* Claims about _wrap_text.                                                *)
(***************************************************************************)
\* C5: no line returned by _wrap_text is wider than max_width.
C5_NoLineWiderThanMax ==
    wrapCall.called =>
        \A k \in 1..Len(wrapCall.lines) :
            TextWidth(wrapCall.lines[k]) <= wrapCall.max_width

--------------------------------------------------------------------------
(***************************************************************************)
(* Claims about the file utilities.                                        *)
(***************************************************************************)
CleanupDone == fsOp.op = "cleanup" /\ fsOp.directory \in ExistingDirs

\* the matching files before the call, those that remain, those removed
CleanupMatching == Glob(fsOp.before, fsOp.directory, fsOp.pattern)
CleanupRemaining == Glob(fs, fsOp.directory, fsOp.pattern)
CleanupRemoved == {p \in Paths : fsOp.before[p].exists /\ ~fs[p].exists}

\* no file of kept is older than a file of others
MostRecent(kept, others) ==
    \A k \in kept, o \in others : fsOp.before[k].mtime >= fsOp.before[o].mtime

\* a second call with the same arguments removes nothing
SecondCleanupRemovesNothing ==
    \A files \in Sorted(fs, CleanupRemaining) :
        \A failed \in SUBSET Elements(SliceFrom(files, fsOp.keep_recent)) :
            cleanup_temp_files(fs, fsOp.directory, fsOp.pattern, fsOp.keep_recent,
                               files, failed) = fs

ValidateDone == fsOp.op = "validate"

\* the file validated is at least num/den MB large
AtLeastThreshold ==
    fs[fsOp.path].size * fsOp.min_size_mb.den >= fsOp.min_size_mb.num * MiB

\* C7: validate_video_file returns False when the path does not exist and
\* when the size is below the threshold, and True for every existing file
\* whose size is at least the threshold.
C7_ValidateVideoFile ==
    ValidateDone =>
        /\ ~fs[fsOp.path].exists => fsOp.result = FALSE
        /\ (fs[fsOp.path].exists /\ ~AtLeastThreshold) => fsOp.result = FALSE
        /\ (fs[fsOp.path].exists /\ AtLeastThreshold) => fsOp.result = TRUE

\* a file exactly at the threshold of 1 MB is accepted
C7_Witness ==
    /\ ValidateDone
    /\ fsOp.min_size_mb = [num |-> 1, den |-> 1]
    /\ fs[fsOp.path].exists
    /\ fs[fsOp.path].size = MiB
    /\ fsOp.result = TRUE

--------------------------------------------------------------------------
(***************************************************************************)
(* Claims about generate_reel.                                             *)
(***************************************************************************)
ReelDone == reelOp.op = "generate_reel"

\* C10: when ffmpeg is unavailable or fails and moviepy fails too,
\* generate_reel raises; it returns the output path only if one of the two
\* encoders was run in that call and reported success.
C10_RaisesWhenBothEncodersFail ==
    ReelDone =>
        /\ ((~reelOp.available \/ ~reelOp.env.ffmpeg) /\ ~reelOp.env.moviepy)
              => reelOp.outcome.kind = "raise"
        /\ reelOp.outcome.kind = "return"
              => /\ reelOp.outcome.value = output_path
                 /\ \/ reelOp.ffmpegTried /\ reelOp.env.ffmpeg
                    \/ reelOp.moviepyTried /\ reelOp.env.moviepy

\* ffmpeg is available and fails, moviepy fails, the frame was saved
C10_Witness ==
    /\ ReelDone
    /\ reelOp.available
    /\ reelOp.ffmpegTried /\ ~reelOp.env.ffmpeg
    /\ reelOp.moviepyTried /\ ~reelOp.env.moviepy
    /\ reelOp.outcome = Raises("Exception")
    /\ fs[frame_path].exists

--------------------------------------------------------------------------
(***************************************************************************)
(* Claims about the fetches of the ContentGenerator.                       *)
(***************************************************************************)
FetchDone == genOp.op \in {"get_nasa_apod", "get_trending_space_news"}

\* the key of the fetch made at time t
FetchKey(op, t) == IF op = "get_nasa_apod" THEN ApodKey(t) ELSE NewsKey

\* the request of the first invocation failed with a network error
FirstRequestFailed ==
    /\ genOp.contacts >= 1
    /\ genOp.nets[1].kind \in {"request_error", "error"}

\* C19: a fetch whose request fails with a network error is retried with
\* backoff by the retry wrapper: a failure result reaches the caller only
\* after the attempt limit of requests, with a sleep between two attempts.
C19_NetworkErrorRetried ==
    (FetchDone /\ FirstRequestFailed /\ genOp.outcome = Returns(None)) =>
        /\ genOp.contacts = genOp.max_attempts
        /\ Len(genOp.sleeps) = genOp.max_attempts - 1

\* the entry of the key of this fetch in the cache before it
HadEntry == FetchKey(genOp.op, genOp.at) \in DOMAIN genOp.before
EntryBefore == genOp.before[FetchKey(genOp.op, genOp.at)]

\* C20: a fetch made less than cache_ttl after the result of its key was
\* stored returns the stored result without contacting the network and
\* leaves the cache alone; a fetch made once the TTL has elapsed drops the
\* entry and contacts the network, and the entry it leaves, if any, is the
\* one it stored itself.  The key of the daily picture names the date, the
\* key of the news is fixed.
C20_CacheWithinTtl ==
    /\ (FetchDone /\ HadEntry /\ genOp.at - EntryBefore.timestamp < cache_ttl) =>
           /\ genOp.outcome = Returns(EntryBefore.value)
           /\ genOp.contacts = 0
           /\ cache = genOp.before
    /\ (FetchDone /\ HadEntry /\ genOp.at - EntryBefore.timestamp >= cache_ttl) =>
           /\ genOp.contacts >= 1
           /\ FetchKey(genOp.op, genOp.at) \in DOMAIN cache =>
                  /\ cache[FetchKey(genOp.op, genOp.at)].timestamp = genOp.at
                  /\ genOp.outcome = Returns(cache[FetchKey(genOp.op, genOp.at)].value)
    /\ \A k \in DOMAIN cache :
           \/ k = NewsKey
           \/ k = "nasa_apod_" \o DateStr(cache[k].timestamp)

\* an entry exactly cache_ttl old was dropped, the network contacted and the
\* new result stored
C20_Witness ==
    /\ FetchDone
    /\ HadEntry
    /\ genOp.at - EntryBefore.timestamp = cache_ttl
    /\ genOp.contacts = 1
    /\ FetchKey(genOp.op, genOp.at) \in DOMAIN cache
    /\ cache[FetchKey(genOp.op, genOp.at)].timestamp = genOp.at

--------------------------------------------------------------------------
(***************************************************************************)
(* Claims about the InstagramBot.                                          *)
(***************************************************************************)
LoginDone == botOp.op = "login"
PostDone == botOp.op = "post_reel"

\* the positions of the events named name
EventsNamed(name) == {i \in 1..Len(botOp.events) : botOp.events[i].ev = name}

VerifiedSession == botOp.before.session /\ botOp.env.verify = "ok"
StaleSession == botOp.before.session /\ botOp.env.verify # "ok"

\* the session file is written only after client.login succeeded
WrittenOnlyAfterLogin ==
    /\ \A i \in EventsNamed("dump_settings") :
           /\ botOp.env.login = "ok"
           /\ \E j \in EventsNamed("client.login") : j < i
    /\ (session_file /\ ~botOp.before.session) => EventsNamed("dump_settings") # {}

\* a verified session: True, no credential login, the file is not rewritten
VerifiedSessionReused ==
    VerifiedSession =>
        /\ botOp.outcome = Returns(TRUE)
        /\ EventsNamed("client.login") = {}
        /\ EventsNamed("dump_settings") = {}
        /\ session_file

AttemptOf(i) == Cardinality({j \in EventsNamed("post_reel") : j <= i})
CallOf(i) == botOp.events[CHOOSE j \in EventsNamed("post_reel") :
                              j <= i /\ \A k \in EventsNamed("post_reel") : k <= i => k <= j]

\* the login of an attempt that starts in the state of the event call succeeds
LoginSucceeds(env, call) ==
    \/ call.session /\ env.verify = "ok"
    \/ env.login = "ok" /\ env.dump

\* C12: clip_upload is invoked only while _is_logged_in is true; an attempt
\* of post_reel that starts logged out logs in first, and makes no upload
\* when that login fails.
C12_UploadOnlyLoggedIn ==
    PostDone =>
        \A i \in EventsNamed("clip_upload") :
            /\ botOp.events[i].logged_in
            /\ \/ CallOf(i).logged_in
               \/ /\ LoginSucceeds(botOp.envs[AttemptOf(i)].login, CallOf(i))
                  /\ \E j \in EventsNamed("load_settings") \cup EventsNamed("client.login") :
                         j < i /\ AttemptOf(j) = AttemptOf(i)

\* logged out, the login of the first attempt fails and no upload is made;
\* the second attempt logs in and uploads
C12_Witness ==
    /\ PostDone
    /\ ~botOp.before.logged_in
    /\ botOp.calls = 2
    /\ ~LoginSucceeds(botOp.envs[1].login, botOp.events[1])
    /\ Cardinality(EventsNamed("clip_upload")) = 1
    /\ botOp.outcome = Returns(Media)

\* C13: clip_upload is invoked only for a video file that exists and is not
\* larger than 100 MB; for a missing file or a file over the ceiling it is
\* never invoked and post_reel raises.
C13_UploadOnlyValidFile ==
    PostDone =>
        /\ EventsNamed("clip_upload") # {} =>
               botOp.video.exists /\ botOp.video.size <= 100 * MiB
        /\ (~botOp.video.exists \/ botOp.video.size > 100 * MiB) =>
               /\ EventsNamed("clip_upload") = {}
               /\ botOp.outcome.kind # "return"
               /\ botOp.before.logged_in =>
                      botOp.outcome = IF botOp.video.exists THEN Raises("ValueError")
                                      ELSE Raises("FileNotFoundError")

\* a file one byte over the ceiling is refused in both attempts
C13_Witness ==
    /\ PostDone
    /\ botOp.video.exists
    /\ botOp.video.size = 100 * MiB + 1
    /\ botOp.calls = 2
    /\ botOp.outcome = Raises("ValueError")

\* every attempt of the call reached clip_upload, which failed, and the
\* failure reached the caller
UploadKeepsFailing ==
    /\ PostDone
    /\ botOp.outcome.kind = "raise"
    /\ Cardinality(EventsNamed("clip_upload")) = botOp.calls

SleepsOfPost == [i \in 1..Cardinality(EventsNamed("sleep")) |->
                    botOp.events[CHOOSE j \in EventsNamed("sleep") :
                        Cardinality({k \in EventsNamed("sleep") : k <= j}) = i].n]

\* C14 as stated: when clip_upload keeps failing it is retried twice, with a
\* delay that grows from one retry to the next, before the failure reaches
\* the caller.
C14_RetriedTwiceWithGrowingDelay ==
    UploadKeepsFailing =>
        /\ Cardinality(EventsNamed("clip_upload")) = 3
        /\ Len(SleepsOfPost) = 2
        /\ SleepsOfPost[1] < SleepsOfPost[2]

\* C14, amended: post_reel invokes clip_upload at most twice in all, that
\* is one retry, after a single sleep of 5 seconds; when clip_upload keeps
\* failing the exception of the second invocation reaches the caller, and
\* post_reel returns nothing but the media of a successful upload.
C14_RetriedOnceAfterFiveSeconds ==
    PostDone =>
        /\ Cardinality(EventsNamed("clip_upload")) <= 2
        /\ botOp.calls <= 2
        /\ SleepsOfPost = IF botOp.calls = 2 THEN <<5>> ELSE <<>>
        /\ UploadKeepsFailing =>
               /\ botOp.calls = 2
               /\ botOp.outcome =
                      Raises(IF botOp.envs[2].upload = "none" THEN "AttributeError"
                             ELSE botOp.envs[2].upload)
        /\ botOp.outcome.kind = "return" => botOp.outcome.value = Media

\* clip_upload failed twice, five seconds apart, and the caller got the
\* second failure
C14_Witness ==
    /\ PostDone
    /\ Cardinality(EventsNamed("clip_upload")) = 2
    /\ SleepsOfPost = <<5>>
    /\ botOp.envs[1].upload = "Exception"
    /\ botOp.envs[2].upload = "PleaseWaitFewMinutes"
    /\ botOp.outcome = Raises("PleaseWaitFewMinutes")

--------------------------------------------------------------------------
(***************************************************************************)
(* Claims about scheduler.ReelScheduler (SpecSched).                       *)
(***************************************************************************)
RunDone == schedOp.op = "post_daily_reel"
StartUpDone == schedOp.op = "run_scheduler"

\* the i-th call of the run, and the calls of a given name
RunCall(i) == schedOp.calls[i]
CallsOf(name) == {i \in 1..Len(schedOp.calls) : RunCall(i).call = name}
RunEventsNamed(name) == {i \in 1..Len(schedOp.events) : schedOp.events[i].ev = name}

\* the order of the stages in the text of post_daily_reel
StageOrder ==
    <<"_initialize_components", "is_logged_in", "login", "get_content_for_reel",
      "generate_caption", "generate_reel", "validate_video_file", "post_reel">>
Position(name) == CHOOSE k \in 1..Len(StageOrder) : StageOrder[k] = name

\* the call let the run go on: it returned, and with True where the run
\* tests what it returned (is_logged_in returning False leads to login)
Succeeded(c) ==
    /\ c.outcome.kind = "return"
    /\ c.call \in {"_initialize_components", "login", "validate_video_file"}
         => c.outcome.value = TRUE

\* some call of the run raised an exception other than an interrupt
SomeCallRaised == \E i \in 1..Len(schedOp.calls) : RunCall(i).outcome.kind = "raise"
SomeCallInterrupted ==
    \E i \in 1..Len(schedOp.calls) : RunCall(i).outcome.kind = "interrupt"

\* a run ends with True or False unless it was interrupted, and with False
\* when a call raised
RunEndsWithResult ==
    RunDone =>
        /\ schedOp.outcome \in {Returns(TRUE), Returns(FALSE), Interrupts}
        /\ schedOp.outcome = Interrupts <=> SomeCallInterrupted
        /\ SomeCallRaised => schedOp.outcome = Returns(FALSE)

\* a scheduler started with its credentials configured reaches its loop
StartedSchedulerPolls ==
    StartUpDone /\ schedOp.credentials => schedOp.state # "exited"

\* C15: post_daily_reel never lets an exception other than an interrupt
\* escape: a failure raised in any of its stages ends that run with the
\* result False, and the scheduler started by run_scheduler stays in its
\* polling loop, from which the pipeline is run again at the next scheduled
\* time.
C15_FailureEndsOnlyTheRun == RunEndsWithResult /\ StartedSchedulerPolls

\* the run logged in and failed to
LoginFailedInRun ==
    \E i \in CallsOf("login") : RunCall(i).outcome # Returns(TRUE)

\* C16: within one run of post_daily_reel the calls are made in the fixed
\* order ensure-logged-in (is_logged_in, then login when it said no), fetch
\* content, build caption, render video, validate output, upload; no stage
\* is skipped, and a call is made only if every earlier call succeeded.
\* When login fails the network is not contacted for content, the cache and
\* the files are as they were and no upload is made.
C16_StagesInOrder ==
    RunDone =>
        /\ \A i, j \in 1..Len(schedOp.calls) :
             i < j => Position(RunCall(i).call) < Position(RunCall(j).call)
        /\ \A i \in 1..(Len(schedOp.calls) - 1) : Succeeded(RunCall(i))
        /\ \A k \in 5..Len(StageOrder) :
             CallsOf(StageOrder[k]) # {} => CallsOf(StageOrder[k - 1]) # {}
        /\ CallsOf("get_content_for_reel") # {} =>
             \/ \E i \in CallsOf("is_logged_in") : RunCall(i).outcome = Returns(TRUE)
             \/ \E i \in CallsOf("login") : RunCall(i).outcome = Returns(TRUE)
        /\ CallsOf("login") # {} =>
             \E i \in CallsOf("is_logged_in") : RunCall(i).outcome = Returns(FALSE)
        /\ LoginFailedInRun =>
             /\ schedOp.outcome \in {Returns(FALSE), Interrupts}
             /\ schedOp.contacted = <<>>
             /\ cache = schedOp.before.cache
             /\ fs = schedOp.before.fs
             /\ RunEventsNamed("clip_upload") = {}

\* a run of all the stages, login included, that posted the reel
C16_Witness ==
    /\ RunDone
    /\ [i \in 1..Len(schedOp.calls) |-> RunCall(i).call]
         = <<"is_logged_in", "login", "get_content_for_reel", "generate_caption",
             "generate_reel", "validate_video_file", "post_reel">>
    /\ schedOp.outcome = Returns(TRUE)
    /\ RunEventsNamed("clip_upload") # {}

\* the upload was attempted: post_reel was called or the client was asked
UploadAttempted == CallsOf("post_reel") # {} \/ RunEventsNamed("clip_upload") # {}

ValidationRejected ==
    \E i \in CallsOf("validate_video_file") : RunCall(i).outcome = Returns(FALSE)

\* C17: in every run the upload is attempted only after generate_reel of
\* that run returned the fixed output path and validate_video_file accepted
\* it, the file being present and of at least the minimum size; when the
\* validation rejects the file no upload is attempted and the run returns
\* False.
C17_UploadOnlyAfterValidation ==
    RunDone =>
        /\ UploadAttempted =>
             /\ \E i \in CallsOf("generate_reel") :
                  RunCall(i).outcome = Returns(output_path)
             /\ \E i \in CallsOf("validate_video_file") :
                  RunCall(i).outcome = Returns(TRUE)
             /\ schedOp.fs[output_path].exists
             /\ ~Below(schedOp.fs[output_path].size, DefaultMinSize)
        /\ ValidationRejected =>
             /\ ~UploadAttempted
             /\ schedOp.outcome = Returns(FALSE)

\* a run whose video was accepted and handed to the client, after an earlier
\* video had been left at the output path
C17_Witness ==
    /\ RunDone
    /\ RunEventsNamed("clip_upload") # {}
    /\ schedOp.before.fs[output_path].exists
    /\ \E i \in CallsOf("validate_video_file") : RunCall(i).outcome = Returns(TRUE)

\* the source of the content of a caption: the placeholder of lines 133-139
\* or the source generate_caption reports
CaptionSource ==
    IF schedOp.caption_data.content = ContentOrFallback(None, now) THEN "default"
    ELSE schedOp.caption_data.content_type

BothBuilt == RunDone /\ schedOp.content_data # None /\ schedOp.caption_data # None

\* C18: within one run the caption and the frame are built from the same
\* content record: the source (daily picture, news or placeholder) and the
\* title of the caption are those of the content of the frame.
C18_CaptionAndFrameFromSameContent ==
    BothBuilt =>
        /\ CaptionSource = schedOp.content_data.type
        /\ DictGet(schedOp.caption_data.content, "title", Str_SpaceUpdate)
             = schedOp.content_data.title

\* the login reached client.login, which failed with an exception
CredentialLoginFailed ==
    /\ ~VerifiedSession
    /\ botOp.env.login \in {"ChallengeRequired", "LoginRequired", "PleaseWaitFewMinutes",
                            "Exception"}

\* C24: login() never raises an exception to its caller: when client.login
\* asks for a challenge, refuses the credentials, limits the rate or fails
\* in any other way, login returns False with the flag _is_logged_in false.
\* The body of login runs exactly once per call: the retry wrapper never
\* sleeps and never invokes it again.  Only the interrupt of the user
\* during client.login passes through.
C24_LoginNeverRaises ==
    LoginDone =>
        /\ botOp.outcome.kind # "raise"
        /\ botOp.outcome = Interrupts
             <=> (~VerifiedSession /\ botOp.env.login = "KeyboardInterrupt")
        /\ botOp.outcome.kind = "return" => botOp.outcome.value \in BOOLEAN
        /\ botOp.calls = 1
        /\ Cardinality(EventsNamed("login")) = 1
        /\ EventsNamed("sleep") = {}
        /\ CredentialLoginFailed =>
             /\ botOp.outcome = Returns(FALSE)
             /\ Cardinality(EventsNamed("client.login")) = 1
        /\ botOp.outcome = Returns(FALSE) => ~_is_logged_in

\* a logged-in bot logs in again and the client limits the rate
C24_Witness ==
    /\ LoginDone
    /\ botOp.before.logged_in
    /\ CredentialLoginFailed
    /\ botOp.env.login = "PleaseWaitFewMinutes"
    /\ botOp.outcome = Returns(FALSE)
    /\ ~_is_logged_in

\* a call of a method that logs in first when the bot is logged out
EnsuresLogin == botOp.op \in {"post_reel", "get_profile_pic"}

\* an invocation of the body of the method that started logged out and
\* whose login returned True
InnerLoginReturnedTrue ==
    \E i \in EventsNamed(botOp.op) :
        /\ ~botOp.events[i].logged_in
        /\ LoginSucceeds(botOp.envs[botOp.events[i].n].login, botOp.events[i])

\* the flag after a call of a method of the bot, from the flag before it
FlagAfterCall ==
    /\ botOp.op = "login" =>
         /\ botOp.outcome = Returns(TRUE) => _is_logged_in
         /\ botOp.outcome = Returns(FALSE) => ~_is_logged_in
         /\ botOp.outcome = Interrupts => _is_logged_in = botOp.before.logged_in
    /\ botOp.op = "logout" => ~_is_logged_in
    /\ botOp.op = "is_logged_in" =>
         /\ _is_logged_in = botOp.outcome.value
         /\ _is_logged_in => botOp.before.logged_in
    /\ EnsuresLogin =>
         /\ botOp.before.logged_in => _is_logged_in /\ EventsNamed("login") = {}
         /\ ~botOp.before.logged_in => (_is_logged_in <=> InnerLoginReturnedTrue)

\* between the calls the flag does not change
FlagKept == botOp' \in {botOp, NoBotOp} => _is_logged_in' = _is_logged_in

\* C25: over any sequence of login, logout, is_logged_in, post_reel and
\* get_profile_pic calls the bot starts logged out and its flag
\* _is_logged_in is true only if some login returned True and no logout,
\* failed login or failed is_logged_in check happened since; after logout
\* the flag is false even when client.logout raised.
C25_FlagOnlyAfterLogin == ~_is_logged_in /\ []FlagAfterCall /\ [][FlagKept]_vars

\* a logged-in bot is logged out while client.logout raises
C25_Witness ==
    /\ botOp.op = "logout"
    /\ botOp.before.logged_in
    /\ ~botOp.client_logout_ok
    /\ EventsNamed("client.logout") # {}
    /\ ~_is_logged_in

\* the sources consulted by generate_caption: the requested one first, the
\* other one exactly when the requested one returned nothing, and the
\* placeholder exactly when both returned nothing
CaptionFallbackOrder ==
    CaptionReturned =>
        /\ genOp.consulted[1] = genOp.arg
        /\ Len(genOp.consulted) = 2 <=> genOp.empty # <<>>
        /\ Len(genOp.consulted) = 2 => genOp.empty[1] = genOp.arg
        /\ genOp.outcome.value.content = ContentOrFallback(None, genOp.at)
             <=> Len(genOp.empty) = 2

\* C26: generate_caption consults the requested source first, the other
\* source only if the requested one returned nothing, and uses the
\* placeholder only if both returned nothing; the content_type it returns
\* names the source whose content was used, so never a source that returned
\* nothing.
C26_ContentTypeNamesSourceUsed ==
    /\ CaptionFallbackOrder
    /\ CaptionReturned =>
         /\ genOp.outcome.value.content_type = genOp.consulted[Len(genOp.consulted)]
         /\ genOp.outcome.value.content_type \notin Elements(genOp.empty)

\* the encoders run by a call: ffmpeg exactly when the flag is set, moviepy
\* exactly when ffmpeg was not run or failed
EncoderOrder ==
    /\ reelOp.ffmpegTried <=> reelOp.available
    /\ reelOp.ffmpegOk => reelOp.ffmpegTried /\ reelOp.env.ffmpeg
    /\ reelOp.moviepyTried <=> (~reelOp.available \/ ~reelOp.ffmpegOk)

\* the flag of a call is the flag of the generator, which no step changes
FlagAsProbed == ReelDone => reelOp.available = _ffmpeg_available
FlagUnchanged == _ffmpeg_available' = _ffmpeg_available

FirstAttempt == post_reel_body(botOp.before, fs, output_path, botOp.envs[1])

\* the first invocation failed for a reason that a new attempt cannot
\* remove: the video file is missing or over the ceiling, or the login was
\* refused, so that clip_upload was not reached
PermanentFailure ==
    /\ PostDone
    /\ FirstAttempt.outcome \in
           {Raises("FileNotFoundError"), Raises("ValueError"), Raises("Exception")}
    /\ \A i \in DOMAIN FirstAttempt.events : FirstAttempt.events[i].ev # "clip_upload"

\* the first invocation reached clip_upload, which raised
UploadFailure ==
    /\ PostDone
    /\ FirstAttempt.outcome.kind = "raise"
    /\ \E i \in DOMAIN FirstAttempt.events : FirstAttempt.events[i].ev = "clip_upload"

\* C28: the wrapper of post_reel does not classify failures: after a
\* permanent failure of the first attempt (missing file, file over the
\* ceiling, refused login) the body is invoked again after the same sleep of
\* 5 seconds as after a failed upload, and an exception reaches the caller
\* only from the second, last attempt.
C28_PermanentFailureRetriedAlike ==
    /\ PermanentFailure \/ UploadFailure =>
           /\ botOp.calls = 2
           /\ Cardinality(EventsNamed("post_reel")) = 2
           /\ SleepsOfPost = <<5>>
    /\ PostDone /\ botOp.outcome.kind = "raise" => botOp.calls = 2
    /\ PostDone /\ botOp.before.logged_in /\ ~botOp.video.exists =>
           botOp.calls = 2 /\ botOp.outcome = Raises("FileNotFoundError")
    /\ PostDone /\ botOp.before.logged_in /\ botOp.video.exists
         /\ botOp.video.size > 100 * MiB =>
           botOp.calls = 2 /\ botOp.outcome = Raises("ValueError")

\* the video file is missing: the body is invoked twice, 5 seconds apart,
\* and the caller gets the FileNotFoundError of the second invocation
C28_Witness ==
    /\ PermanentFailure
    /\ botOp.before.logged_in
    /\ ~botOp.video.exists
    /\ botOp.calls = 2
    /\ SleepsOfPost = <<5>>
    /\ EventsNamed("clip_upload") = {}
    /\ botOp.outcome = Raises("FileNotFoundError")

\* a call of cleanup_temp_files, on a directory that exists or not
AnyCleanupDone == fsOp.op = "cleanup"
Untouched(p) == fs[p] = fsOp.before[p]

\* C29 as stated: cleanup_temp_files never removes a file that does not
\* match the pattern, nor a file outside the directory; the files that do
\* not match are left as they were by every call, and a missing directory
\* leaves every file as it was.
C29_OnlyMatchingFilesOfDirectory ==
    AnyCleanupDone =>
        /\ \A p \in Paths : ~Matches(p, fsOp.pattern) => Untouched(p)
        /\ \A p \in Paths : p.dir # fsOp.directory => Untouched(p)
        /\ fsOp.directory \notin ExistingDirs => fs = fsOp.before

\* C29, amended: cleanup_temp_files never removes a file that does not match
\* the pattern, nor, for a pattern without a ".." segment, a file outside
\* the directory (a pattern "../*.jpg" selects, and removes, files of the
\* parent directory); files are removed and never altered, and a missing
\* directory leaves every file as it was.
C29_OnlyFilesThePatternSelects ==
    AnyCleanupDone =>
        /\ \A p \in Paths : ~Matches(p, fsOp.pattern) => Untouched(p)
        /\ \A p \in Paths :
               p.dir # fsOp.directory /\ ~fsOp.pattern.up => Untouched(p)
        /\ \A p \in Paths : Untouched(p) \/ fs[p] = Absent
        /\ fsOp.directory \notin ExistingDirs => fs = fsOp.before

\* every .jpg file of the directory is removed while the video beside them
\* and a .jpg file of another directory stay
C29_Witness ==
    /\ AnyCleanupDone
    /\ fsOp.directory = output_dir
    /\ fsOp.pattern = Pattern("*", "jpg")
    /\ fsOp.keep_recent = 0
    /\ CleanupRemoved # {}
    /\ fs[output_path].exists
    /\ fs[other_path].exists

\* the fetch returned nothing
FetchFailed == FetchDone /\ genOp.outcome = Returns(None)

\* the cache c without the entry of key
Without(c, key) == [k \in DOMAIN c \ {key} |-> c[k]]

\* C30: a fetch that returns nothing writes no cache entry (its key has no
\* entry afterwards and the other entries are as before), a fetch whose key
\* has no entry contacts the network, so the fetch after a failed one asks
\* again, and every cache entry holds a fetched record.
C30_FailureNeverCached ==
    /\ FetchFailed =>
           /\ FetchKey(genOp.op, genOp.at) \notin DOMAIN cache
           /\ cache = Without(genOp.before, FetchKey(genOp.op, genOp.at))
           /\ genOp.contacts >= 1
    /\ (FetchDone /\ ~HadEntry) => genOp.contacts >= 1
    /\ \A k \in DOMAIN cache :
           /\ Truthy(cache[k].value)
           /\ cache[k].value # None

\* a fetch of a key whose entry had expired failed at every attempt: the
\* entry is gone, nothing was stored, and another key keeps its record
C30_Witness ==
    /\ FetchFailed
    /\ HadEntry
    /\ genOp.contacts >= 1
    /\ FetchKey(genOp.op, genOp.at) \notin DOMAIN cache
    /\ DOMAIN cache # {}

\* the run started on a scheduler without its components, with the
\* credentials configured
RunFromNewScheduler ==
    RunDone /\ ~AllComponents(schedOp.before) /\ schedOp.credentials

\* every call the run made to a client, a source, the renderer or the
\* validation succeeded, the upload with a media object
ExternalCallsSucceeded ==
    /\ \A i \in 1..Len(schedOp.calls) :
         RunCall(i).call # "_initialize_components" => Succeeded(RunCall(i))
    /\ \A i \in CallsOf("post_reel") : RunCall(i).outcome = Returns(Media)

\* C23: with the credentials configured and every external call succeeding,
\* _initialize_components succeeds and post_daily_reel reaches the upload
\* and returns True.
C23_InitializedRunPosts ==
    RunFromNewScheduler /\ ExternalCallsSucceeded =>
        /\ \E i \in CallsOf("_initialize_components") : RunCall(i).outcome = Returns(TRUE)
        /\ CallsOf("post_reel") # {}
        /\ schedOp.outcome = Returns(TRUE)

\* the names of the calls a start-up made
StartUpCalls == [i \in 1..Len(schedOp.calls) |-> schedOp.calls[i].call]

\* C21: a scheduler started with its credentials configured polls until a
\* manual interrupt; it then logs the bot out, the logged-in flag being
\* false afterwards, then runs the cleanup of the temporary files, and
\* run_scheduler returns without starting another run.
C21_InterruptLogsOutThenCleans ==
    StartUpDone /\ schedOp.credentials =>
        /\ schedOp.state = "stopped"
        /\ StartUpCalls = <<"logout", "cleanup">>
        /\ ~_is_logged_in

MainDone == schedOp.op = "main"

\* C22: the one-shot entry point makes one pass of post_daily_reel, no stage
\* being run twice, and exits with status 0 if and only if the pass returned
\* True, and with status 1 if it returned anything else.
C22_ExitStatusReportsTheRun ==
    MainDone =>
        /\ \A i, j \in 1..Len(schedOp.calls) :
             RunCall(i).call = RunCall(j).call => i = j
        /\ schedOp.status = 0 <=> schedOp.outcome = Returns(TRUE)
        /\ (schedOp.outcome.kind = "return" /\ schedOp.outcome # Returns(TRUE)) =>
               schedOp.status = 1
        /\ schedOp.state = "exited"

\* the entry point ran with the credentials configured: the pass returned
\* False after its only call and the process exited with status 1
C22_Witness ==
    /\ MainDone
    /\ schedOp.credentials
    /\ Len(schedOp.calls) = 1
    /\ schedOp.outcome = Returns(FALSE)
    /\ schedOp.status = 1

--------------------------------------------------------------------------
(***************************************************************************)
(* Claims about the words of the wrapped lines.                            *)
(***************************************************************************)
\* the words of the lines from the k-th on, in order
RECURSIVE WordsOfLines(_, _)
WordsOfLines(lines, k) ==
    IF k > Len(lines) THEN <<>>
    ELSE Split(lines[k]) \o WordsOfLines(lines, k + 1)

\* C31: the words of the lines returned by _wrap_text, read in order, are
\* exactly the whitespace-separated words of the text; no returned line is
\* empty; a text that is empty or only whitespace gives no lines.
C31_WrapKeepsTheWords ==
    wrapCall.called =>
        /\ WordsOfLines(wrapCall.lines, 1) = Split(wrapCall.text)
        /\ \A k \in 1..Len(wrapCall.lines) :
             /\ Len(wrapCall.lines[k]) > 0
             /\ Split(wrapCall.lines[k]) # <<>>
        /\ (\A i \in 1..Len(wrapCall.text) : IsSpace(wrapCall.text[i])) =>
               wrapCall.lines = <<>>

\* a text that begins with a space and has a line break between its two
\* words, of which the first fits and the second is too wide: two lines,
\* one word each
C31_Witness ==
    /\ wrapCall.called
    /\ wrapCall.text = <<" ", "a", "\n", "W">>
    /\ wrapCall.max_width = 1
    /\ wrapCall.lines = << <<"a">>, <<"W">> >>

==========================================================================
